---- MODULE Spec2Model ----
(***************************************************************************)
(* Listing lifecycle of the meal marketplace bot.                          *)
(*                                                                         *)
(* The database tables (users, meals, listings) are shared state.  Every   *)
(* CRUD function runs in its own AsyncSession: it SELECTs the row, checks  *)
(* and modifies the in-memory object, and then awaits session.commit().    *)
(* The SELECT and the commit are separate round trips to SQLite, so a      *)
(* function is two steps: a read step (the SELECT, the checks and the      *)
(* attribute assignments) and a commit step (the flush of the UPDATE or    *)
(* INSERT).  The unit of work flushes UPDATE ... WHERE id = ? with only    *)
(* the columns whose value differs from the loaded one.                    *)
(***************************************************************************)
EXTENDS Integers, FiniteSets, Sequences, TLC

VARIABLES now, users, meals, listings, conv, pc, txn, calls

vars == <<now, users, meals, listings, conv, pc, txn, calls>>

----------------------------------------------------------------------------
(* Bounds of the model: clock readings, CRUD calls on stored listings,     *)
(* rows of the listings table, prices a seller types, rows of the meals    *)
(* table, rows of the users table.                                      *)

MaxTicks == 2
MaxCalls == 4
MaxListings == 2
MaxPrice == 2
MaxMeals == 2
MaxUsers == 5

(* Program constants *)

NULL == 0
PENDING_TIMEOUT_MINUTES == 5

Sessions == {1, 2}

(* models.ListingStatus, with the EXPIRED member that crud.py:461 refers   *)
(* to; the enum class as given declares the other four, and no function    *)
(* assigns EXPIRED.                                                        *)
Status == {"AVAILABLE", "AWAITING_CONFIRMATION", "SOLD", "CANCELLED", "EXPIRED"}

Codes == {"ABC123", "XYZ789"}
NoCode == "none"

(* users table: id -> row.  Users 1 and 2 are verified and have a card     *)
(* number (they can sell); user 3 has no card number.                      *)
UsersTable ==
  <<[telegram_id |-> 11, is_verified |-> TRUE, credit_card_number |-> TRUE],
    [telegram_id |-> 12, is_verified |-> TRUE, credit_card_number |-> TRUE],
    [telegram_id |-> 13, is_verified |-> TRUE, credit_card_number |-> FALSE]>>

(* datetime.now(timezone.utc).date(): the day a clock reading falls on *)
MinutesPerDay == 1440
Today(t) == t \div MinutesPerDay

(* meals table: id -> row.  Meal 1 has a price ceiling, meal 2 has none;   *)
(* both are served on the day the model starts.                            *)
MealsTable ==
  <<[price_limit |-> 1, date |-> 0], [price_limit |-> NULL, date |-> 0]>>

(* crud.get_meals_for_selling: the meals of today and later *)
get_meals_for_selling(t) == {m \in DOMAIN meals : meals[m].date >= Today(t)}

TelegramIds == {users[u].telegram_id : u \in DOMAIN users}

(* crud.get_user_by_telegram_id: the user's DB id, or NULL *)
get_user_by_telegram_id(tg) ==
  IF \E u \in DOMAIN users : users[u].telegram_id = tg
  THEN CHOOSE u \in DOMAIN users : users[u].telegram_id = tg
  ELSE NULL

(* the telegram id of listing.seller (joinedload of the seller relation) *)
SellerTelegramId(row) ==
  IF row.seller_id \in DOMAIN users THEN users[row.seller_id].telegram_id ELSE NULL

(* the telegram id of listing.pending_buyer_relation *)
PendingBuyerTelegramId(row) ==
  IF row.pending_buyer_id \in DOMAIN users
  THEN users[row.pending_buyer_id].telegram_id ELSE NULL

(* the id SQLite gives the next inserted row *)
NextListingId ==
  IF DOMAIN listings = {} THEN 1
  ELSE 1 + CHOOSE l \in DOMAIN listings : \A k \in DOMAIN listings : k <= l

(* The listing ids a callback button can carry: the stored ones and one    *)
(* that is not in the table.                                               *)
ListingIds == DOMAIN listings \cup {NextListingId}

(* A freshly inserted listing: models.Listing(...) with the column defaults *)
NewListing(seller, code, meal, price) ==
  [seller_id |-> seller, buyer_id |-> NULL, pending_buyer_id |-> NULL,
   price |-> price, status |-> "AVAILABLE",
   university_reservation_code |-> code, meal_id |-> meal,
   sold_at |-> NULL, pending_until |-> NULL, cancelled_at |-> NULL,
   cancelled_by_buyer_at |-> NULL, rejected_by_seller_at |-> NULL]

(* The session of a CRUD call: what it read, what it is about to write,    *)
(* and what it returned.  concurrent is the set of sessions that committed *)
(* to a row of snap between this session's SELECT and its own commit.      *)
(* buyer_notified_payment_at is the attribute of that name on the Listing  *)
(* object the session loaded: the class maps no such column.               *)
(* error_message is the text the handler chose for the user after a call   *)
(* that returned None, error_status the status it prints in that text.     *)
NoRows == [l \in {} |-> NULL]

IdleTxn ==
  [op |-> "none", listing_id |-> NULL, caller |-> NULL,
   snap |-> NoRows, new |-> NoRows, ok |-> FALSE, reason |-> "none",
   code |-> NoCode, concurrent |-> {}, meal_id |-> NULL,
   buyer_notified_payment_at |-> NULL,
   error_message |-> "none", error_status |-> "none"]

(* One-row result set of a SELECT ... WHERE id = lid *)
One(lid, row) == [l \in {lid} |-> row]

Failed(op, lid, tg, why) ==
  [IdleTxn EXCEPT !.op = op, !.listing_id = lid, !.caller = tg, !.reason = why]

Pending(op, lid, tg, snap, new, code) ==
  [IdleTxn EXCEPT !.op = op, !.listing_id = lid, !.caller = tg,
                  !.snap = snap, !.new = new, !.code = code]

(* A CRUD call enters its session: either the checks fail and it returns   *)
(* None at once, or the modified object waits for session.commit().        *)
Enter(p, op, lid, tg, why, new, code) ==
  /\ pc[p] = "idle"
  /\ calls < MaxCalls
  /\ calls' = calls + 1
  /\ IF why = "ok"
     THEN /\ pc' = [pc EXCEPT ![p] = "commit"]
          /\ txn' = [txn EXCEPT ![p] = Pending(op, lid, tg, One(lid, listings[lid]),
                                               One(lid, new), code)]
     ELSE /\ pc' = [pc EXCEPT ![p] = "done"]
          /\ txn' = [txn EXCEPT ![p] = Failed(op, lid, tg, why)]
  /\ UNCHANGED <<now, users, meals, listings, conv>>

----------------------------------------------------------------------------
(* crud.set_listing_awaiting_confirmation *)

(* The checks without the buyer-is-not-the-seller test of lines 561-563.   *)
AwaitingCheckAnyBuyer(lid, tg) ==
  IF lid \notin DOMAIN listings THEN "ListingNotFound"
  ELSE IF listings[lid].status # "AVAILABLE" THEN "NotAvailable"
  ELSE IF get_user_by_telegram_id(tg) = NULL THEN "BuyerNotFound"
  ELSE "ok"

(* The checks with a status test that lets the pending buyer start the     *)
(* pending window again.                                                   *)
AwaitingCheckRenewable(lid, tg) ==
  IF lid \notin DOMAIN listings THEN "ListingNotFound"
  ELSE IF /\ listings[lid].status # "AVAILABLE"
          /\ ~(/\ listings[lid].status = "AWAITING_CONFIRMATION"
               /\ listings[lid].pending_buyer_id = get_user_by_telegram_id(tg))
       THEN "NotAvailable"
  ELSE IF get_user_by_telegram_id(tg) = NULL THEN "BuyerNotFound"
  ELSE IF listings[lid].seller_id = get_user_by_telegram_id(tg) THEN "SelfPurchase"
  ELSE "ok"

AwaitingCheck(lid, tg) ==
  IF lid \notin DOMAIN listings THEN "ListingNotFound"
  ELSE IF listings[lid].status # "AVAILABLE" THEN "NotAvailable"
  ELSE IF get_user_by_telegram_id(tg) = NULL THEN "BuyerNotFound"
  ELSE IF listings[lid].seller_id = get_user_by_telegram_id(tg) THEN "SelfPurchase"
  ELSE "ok"

(* The assignments with a deadline that is the time of the call itself *)
AwaitingRowWithoutWindow(row, buyer, t) ==
  [row EXCEPT !.status = "AWAITING_CONFIRMATION",
              !.pending_buyer_id = buyer,
              !.buyer_id = NULL,
              !.pending_until = t,
              !.sold_at = NULL]

AwaitingRow(row, buyer, t) ==
  [row EXCEPT !.status = "AWAITING_CONFIRMATION",
              !.pending_buyer_id = buyer,
              !.buyer_id = NULL,
              !.pending_until = t + PENDING_TIMEOUT_MINUTES,
              !.sold_at = NULL]

SetListingAwaitingConfirmation(p, lid, tg) ==
  LET why == AwaitingCheck(lid, tg) IN
  Enter(p, "initiate", lid, tg, why,
        IF why = "ok" THEN AwaitingRow(listings[lid], get_user_by_telegram_id(tg), now)
        ELSE NULL,
        NoCode)

----------------------------------------------------------------------------
(* crud.finalize_listing_sale *)

(* The checks without the comparison of the caller with the seller *)
FinalizeCheckAnyCaller(lid, tg) ==
  IF lid \notin DOMAIN listings THEN "ListingNotFound"
  ELSE IF listings[lid].status # "AWAITING_CONFIRMATION" THEN "WrongStatus"
  ELSE IF listings[lid].pending_buyer_id = NULL THEN "PendingBuyerMissing"
  ELSE IF listings[lid].pending_buyer_id \notin DOMAIN users THEN "BuyerNotFound"
  ELSE "ok"

(* The checks with a hard deadline: past pending_until the call is refused *)
FinalizeCheckBeforeDeadline(lid, tg) ==
  IF lid \notin DOMAIN listings THEN "ListingNotFound"
  ELSE IF SellerTelegramId(listings[lid]) = NULL
          \/ SellerTelegramId(listings[lid]) # tg THEN "NotSeller"
  ELSE IF listings[lid].status # "AWAITING_CONFIRMATION" THEN "WrongStatus"
  ELSE IF listings[lid].pending_until # NULL /\ listings[lid].pending_until < now
       THEN "DeadlinePassed"
  ELSE IF listings[lid].pending_buyer_id = NULL THEN "PendingBuyerMissing"
  ELSE IF listings[lid].pending_buyer_id \notin DOMAIN users THEN "BuyerNotFound"
  ELSE "ok"

FinalizeCheck(lid, tg) ==
  IF lid \notin DOMAIN listings THEN "ListingNotFound"
  ELSE IF SellerTelegramId(listings[lid]) = NULL
          \/ SellerTelegramId(listings[lid]) # tg THEN "NotSeller"
  ELSE IF listings[lid].status # "AWAITING_CONFIRMATION" THEN "WrongStatus"
  ELSE IF listings[lid].pending_buyer_id = NULL THEN "PendingBuyerMissing"
  ELSE IF listings[lid].pending_buyer_id \notin DOMAIN users THEN "BuyerNotFound"
  ELSE "ok"

(* The assignments without buyer_id = pending_buyer_id: the pending buyer  *)
(* is cleared and the buyer is never recorded.                             *)
SoldRowWithoutBuyer(row, t) ==
  [row EXCEPT !.status = "SOLD",
              !.pending_buyer_id = NULL,
              !.sold_at = t,
              !.pending_until = NULL]

SoldRow(row, t) ==
  [row EXCEPT !.status = "SOLD",
              !.buyer_id = row.pending_buyer_id,
              !.pending_buyer_id = NULL,
              !.sold_at = t,
              !.pending_until = NULL]

FinalizeListingSale(p, lid, tg) ==
  LET why == FinalizeCheck(lid, tg) IN
  Enter(p, "finalize", lid, tg, why,
        IF why = "ok" THEN SoldRow(listings[lid], now) ELSE NULL,
        IF why = "ok" THEN listings[lid].university_reservation_code ELSE NoCode)

----------------------------------------------------------------------------
(* crud.cancel_pending_purchase_by_buyer *)

(* The checks without the comparison of the caller with the pending buyer *)
BuyerCancelCheckAnyCaller(lid, tg) ==
  IF lid \notin DOMAIN listings THEN "ListingNotFound"
  ELSE IF listings[lid].status # "AWAITING_CONFIRMATION" THEN "WrongStatus"
  ELSE "ok"

BuyerCancelCheck(lid, tg) ==
  IF lid \notin DOMAIN listings THEN "ListingNotFound"
  ELSE IF listings[lid].status # "AWAITING_CONFIRMATION" THEN "WrongStatus"
  ELSE IF PendingBuyerTelegramId(listings[lid]) = NULL
          \/ PendingBuyerTelegramId(listings[lid]) # tg THEN "NotPendingBuyer"
  ELSE "ok"

(* The assignments without lines 623-625: the pending buyer and the       *)
(* deadline stay on the row.                                               *)
BuyerCancelledRowKeepingBuyer(row, t) ==
  [row EXCEPT !.status = "AVAILABLE",
              !.cancelled_by_buyer_at = t]

BuyerCancelledRow(row, t) ==
  [row EXCEPT !.status = "AVAILABLE",
              !.pending_buyer_id = NULL,
              !.pending_until = NULL,
              !.cancelled_by_buyer_at = t]

CancelPendingPurchaseByBuyer(p, lid, tg) ==
  LET why == BuyerCancelCheck(lid, tg) IN
  Enter(p, "buyer_cancel", lid, tg, why,
        IF why = "ok" THEN BuyerCancelledRow(listings[lid], now) ELSE NULL, NoCode)

----------------------------------------------------------------------------
(* crud.reject_pending_purchase_by_seller *)

SellerRejectCheck(lid, tg) ==
  IF lid \notin DOMAIN listings THEN "ListingNotFound"
  ELSE IF SellerTelegramId(listings[lid]) = NULL
          \/ SellerTelegramId(listings[lid]) # tg THEN "NotSeller"
  ELSE IF listings[lid].status # "AWAITING_CONFIRMATION" THEN "WrongStatus"
  ELSE "ok"

(* The assignments with one more: the rejected listing is offered again at *)
(* no price.                                                               *)
SellerRejectedRowRepriced(row, t) ==
  [row EXCEPT !.status = "AVAILABLE",
              !.pending_buyer_id = NULL,
              !.pending_until = NULL,
              !.rejected_by_seller_at = t,
              !.price = 0]

SellerRejectedRow(row, t) ==
  [row EXCEPT !.status = "AVAILABLE",
              !.pending_buyer_id = NULL,
              !.pending_until = NULL,
              !.rejected_by_seller_at = t]

RejectPendingPurchaseBySeller(p, lid, tg) ==
  LET why == SellerRejectCheck(lid, tg) IN
  Enter(p, "seller_reject", lid, tg, why,
        IF why = "ok" THEN SellerRejectedRow(listings[lid], now) ELSE NULL, NoCode)

----------------------------------------------------------------------------
(* crud.cancel_available_listing_by_seller *)

(* The checks without the one on the status *)
CancelAvailableCheckAnyStatus(lid, tg) ==
  IF lid \notin DOMAIN listings THEN "ListingNotFound"
  ELSE IF SellerTelegramId(listings[lid]) = NULL
          \/ SellerTelegramId(listings[lid]) # tg THEN "NotSeller"
  ELSE "ok"

CancelAvailableCheck(lid, tg) ==
  IF lid \notin DOMAIN listings THEN "ListingNotFound"
  ELSE IF SellerTelegramId(listings[lid]) = NULL
          \/ SellerTelegramId(listings[lid]) # tg THEN "NotSeller"
  ELSE IF listings[lid].status # "AVAILABLE" THEN "WrongStatus"
  ELSE "ok"

CancelledRow(row, t) ==
  [row EXCEPT !.status = "CANCELLED", !.cancelled_at = t]

CancelAvailableListingBySeller(p, lid, tg) ==
  LET why == CancelAvailableCheck(lid, tg) IN
  Enter(p, "cancel_available", lid, tg, why,
        IF why = "ok" THEN CancelledRow(listings[lid], now) ELSE NULL, NoCode)

----------------------------------------------------------------------------
(* background_tasks.check_pending_listings_timeout *)

(* The SELECT with the comparison of line 40 reversed *)
ExpiredReversed(t) ==
  {l \in DOMAIN listings :
     /\ listings[l].status = "AWAITING_CONFIRMATION"
     /\ listings[l].pending_until # NULL
     /\ listings[l].pending_until > t}

(* A SELECT that compares with <=: a deadline that is the present instant  *)
(* counts as passed.                                                       *)
ExpiredAtDeadline(t) ==
  {l \in DOMAIN listings :
     /\ listings[l].status = "AWAITING_CONFIRMATION"
     /\ listings[l].pending_until # NULL
     /\ listings[l].pending_until <= t}

(* the SELECT of the sweep: AWAITING_CONFIRMATION rows past their deadline *)
Expired(t) ==
  {l \in DOMAIN listings :
     /\ listings[l].status = "AWAITING_CONFIRMATION"
     /\ listings[l].pending_until # NULL
     /\ listings[l].pending_until < t}

(* rows the loop does not skip: seller and pending buyer are known *)
Revertible(t) ==
  {l \in Expired(t) :
     /\ SellerTelegramId(listings[l]) # NULL
     /\ listings[l].pending_buyer_id # NULL}

(* The loop body without line 76: the pending buyer stays on the row *)
TimedOutRowKeepingBuyer(row) ==
  [row EXCEPT !.status = "AVAILABLE",
              !.pending_until = NULL]

(* The loop body without the assignments of lines 72-77: the row is       *)
(* reported as reverted and stored as it was read.                         *)
TimedOutRowUnchanged(row) == row

(* The loop body with one more assignment: the audit column of the buyer's *)
(* cancellation takes the deadline that passed.                            *)
TimedOutRowAudited(row) ==
  [row EXCEPT !.status = "AVAILABLE",
              !.pending_buyer_id = NULL,
              !.pending_until = NULL,
              !.cancelled_by_buyer_at = row.pending_until]

TimedOutRow(row) ==
  [row EXCEPT !.status = "AVAILABLE",
              !.pending_buyer_id = NULL,
              !.pending_until = NULL]

(* one run of the job, from its SELECT to the objects waiting for commit *)
SweepRun(p) ==
  /\ pc[p] = "idle"
  /\ IF Expired(now) = {}
     THEN /\ pc' = [pc EXCEPT ![p] = "done"]
          /\ txn' = [txn EXCEPT ![p] = Failed("sweep", NULL, NULL, "NothingExpired")]
     ELSE /\ pc' = [pc EXCEPT ![p] = "commit"]
          /\ txn' = [txn EXCEPT ![p] =
                       Pending("sweep", NULL, NULL,
                               [l \in Revertible(now) |-> listings[l]],
                               [l \in Revertible(now) |-> TimedOutRow(listings[l])],
                               NoCode)]
  /\ UNCHANGED <<now, users, meals, listings, conv>>

CheckPendingListingsTimeout(p) ==
  /\ calls < MaxCalls
  /\ calls' = calls + 1
  /\ SweepRun(p)

----------------------------------------------------------------------------
(* session.commit() of an UPDATE *)

(* One column of UPDATE listings SET ... WHERE id = ?: the unit of work     *)
(* writes a column only if the attribute differs from the loaded value.    *)
Col(db, loaded, set) == IF set # loaded THEN set ELSE db

Flush(db, snap, new) ==
  [seller_id |-> Col(db.seller_id, snap.seller_id, new.seller_id),
   buyer_id |-> Col(db.buyer_id, snap.buyer_id, new.buyer_id),
   pending_buyer_id |->
     Col(db.pending_buyer_id, snap.pending_buyer_id, new.pending_buyer_id),
   price |-> Col(db.price, snap.price, new.price),
   status |-> Col(db.status, snap.status, new.status),
   university_reservation_code |->
     Col(db.university_reservation_code, snap.university_reservation_code,
         new.university_reservation_code),
   meal_id |-> Col(db.meal_id, snap.meal_id, new.meal_id),
   sold_at |-> Col(db.sold_at, snap.sold_at, new.sold_at),
   pending_until |-> Col(db.pending_until, snap.pending_until, new.pending_until),
   cancelled_at |-> Col(db.cancelled_at, snap.cancelled_at, new.cancelled_at),
   cancelled_by_buyer_at |->
     Col(db.cancelled_by_buyer_at, snap.cancelled_by_buyer_at,
         new.cancelled_by_buyer_at),
   rejected_by_seller_at |->
     Col(db.rejected_by_seller_at, snap.rejected_by_seller_at,
         new.rejected_by_seller_at)]

(* The sessions that read a row this commit writes and have not committed  *)
(* yet learn nothing of it; the model records that they overlapped.        *)
Overlapped(p, q) ==
  /\ q # p
  /\ pc[q] = "commit"
  /\ DOMAIN txn[q].snap \cap DOMAIN txn[p].new # {}

Commit(p) ==
  /\ pc[p] = "commit"
  /\ txn[p].op # "create"
  /\ listings' = [l \in DOMAIN listings |->
                    IF l \in DOMAIN txn[p].new
                    THEN Flush(listings[l], txn[p].snap[l], txn[p].new[l])
                    ELSE listings[l]]
  /\ pc' = [pc EXCEPT ![p] = "done"]
  /\ txn' = [q \in Sessions |->
               IF q = p THEN [txn[p] EXCEPT !.ok = TRUE, !.reason = "ok",
                                            !.snap = NoRows, !.new = NoRows]
               ELSE IF Overlapped(p, q)
                    THEN [txn[q] EXCEPT !.concurrent = @ \cup {p}]
                    ELSE txn[q]]
  /\ UNCHANGED <<now, users, meals, conv, calls>>

(* A commit that raises after the status column has reached the file *)
CommitFailStatusWritten(p) ==
  /\ pc[p] = "commit"
  /\ pc' = [pc EXCEPT ![p] = "done"]
  /\ txn' = [txn EXCEPT ![p] = [@ EXCEPT !.ok = FALSE, !.reason = "StorageFailure",
                                         !.code = NoCode, !.snap = NoRows,
                                         !.new = NoRows]]
  /\ listings' = [l \in DOMAIN listings |->
                    IF l \in DOMAIN txn[p].new
                    THEN [listings[l] EXCEPT !.status = txn[p].new[l].status]
                    ELSE listings[l]]
  /\ UNCHANGED <<now, users, meals, conv, calls>>

(* session.commit() raises (the database is locked, the disk fails): the   *)
(* except branch rolls back and the function returns None.                 *)
CommitFail(p) ==
  /\ pc[p] = "commit"
  /\ pc' = [pc EXCEPT ![p] = "done"]
  /\ txn' = [txn EXCEPT ![p] = [@ EXCEPT !.ok = FALSE, !.reason = "StorageFailure",
                                         !.code = NoCode, !.snap = NoRows,
                                         !.new = NoRows]]
  /\ UNCHANGED <<now, users, meals, listings, conv, calls>>

----------------------------------------------------------------------------
(* The sell conversation (handlers/selling.py).  conv[u] is the state of   *)
(* user u's conversation and the context.user_data it has filled in; a key *)
(* not yet entered in this pass is NULL (every key is written again before *)
(* confirm_listing reads it).                                              *)

NoConv ==
  [state |-> "END", seller_db_id |-> NULL, code |-> NoCode, meal_id |-> NULL,
   price_limit |-> NULL, price |-> NULL]

(* crud.check_listing_exists_by_code *)
check_listing_exists_by_code(code) ==
  \E l \in DOMAIN listings :
     /\ listings[l].university_reservation_code = code
     /\ listings[l].status # "CANCELLED"
     /\ listings[l].status # "EXPIRED"

(* An entry point that lets every user into the conversation *)
HandleSellFoodAnyUser(u) ==
  /\ u \in DOMAIN users
  /\ conv' = [conv EXCEPT ![u] =
                [NoConv EXCEPT !.state = "SELL_ASK_CODE", !.seller_db_id = u]]
  /\ UNCHANGED <<now, users, meals, listings, pc, txn, calls>>

(* handle_sell_food: only a verified user with a card number enters *)
HandleSellFood(u) ==
  /\ u \in DOMAIN users
  /\ conv' = [conv EXCEPT ![u] =
                IF users[u].is_verified /\ users[u].credit_card_number
                THEN [NoConv EXCEPT !.state = "SELL_ASK_CODE", !.seller_db_id = u]
                ELSE NoConv]
  /\ UNCHANGED <<now, users, meals, listings, pc, txn, calls>>

(* receive_reservation_code *)
ReceiveReservationCode(u, code) ==
  /\ conv[u].state = "SELL_ASK_CODE"
  /\ conv' = [conv EXCEPT ![u] =
                IF check_listing_exists_by_code(code) \/ get_meals_for_selling(now) = {}
                THEN NoConv
                ELSE [@ EXCEPT !.state = "SELL_ASK_MEAL", !.code = code]]
  /\ UNCHANGED <<now, users, meals, listings, pc, txn, calls>>

(* receive_meal_selection: stores the meal and its price ceiling *)
ReceiveMealSelection(u, m) ==
  /\ conv[u].state = "SELL_ASK_MEAL"
  /\ conv' = [conv EXCEPT ![u] =
                IF m \notin DOMAIN meals
                THEN NoConv
                ELSE [@ EXCEPT !.state = "SELL_ASK_PRICE", !.meal_id = m,
                               !.price_limit = meals[m].price_limit]]
  /\ UNCHANGED <<now, users, meals, listings, pc, txn, calls>>

(* A validation that compares with >= the next unit instead of > the limit *)
PriceAcceptedUpToNext(price, limit) ==
  /\ price > 0
  /\ ~(limit # NULL /\ price > limit + 1)

(* receive_price: the validation of the entered price *)
PriceAccepted(price, limit) ==
  /\ price > 0
  /\ ~(limit # NULL /\ price > limit)

ReceivePrice(u, price) ==
  /\ conv[u].state = "SELL_ASK_PRICE"
  /\ conv' = [conv EXCEPT ![u] =
                IF PriceAccepted(price, conv[u].price_limit)
                THEN [@ EXCEPT !.state = "SELL_CONFIRM", !.price = price]
                ELSE @]
  /\ UNCHANGED <<now, users, meals, listings, pc, txn, calls>>

(* cancel_sell_conversation, handle_inline_cancel_sell, cancel_listing_creation *)
CancelSellConversation(u) ==
  /\ conv[u].state # "END"
  /\ conv' = [conv EXCEPT ![u] = NoConv]
  /\ UNCHANGED <<now, users, meals, listings, pc, txn, calls>>

(* The checks without the lookup of the meal *)
CreateCheckAnyMeal(code, m) ==
  IF check_listing_exists_by_code(code) THEN "DuplicateCode" ELSE "ok"

(* crud.create_listing up to its commit *)
CreateCheck(code, m) ==
  IF check_listing_exists_by_code(code) THEN "DuplicateCode"
  ELSE IF m \notin DOMAIN meals THEN "MealNotFound"
  ELSE "ok"

(* confirm_listing calling crud.create_listing *)
ConfirmListing(p, u) ==
  /\ pc[p] = "idle"
  /\ conv[u].state = "SELL_CONFIRM"
  /\ LET why == CreateCheck(conv[u].code, conv[u].meal_id)
         row == NewListing(conv[u].seller_db_id, conv[u].code, conv[u].meal_id,
                           conv[u].price)
     IN IF why = "ok"
        THEN /\ pc' = [pc EXCEPT ![p] = "commit"]
             /\ txn' = [txn EXCEPT ![p] =
                          Pending("create", NULL, users[u].telegram_id, NoRows,
                                  One(NULL, row), NoCode)]
        ELSE /\ pc' = [pc EXCEPT ![p] = "done"]
             /\ txn' = [txn EXCEPT ![p] =
                          Failed("create", NULL, users[u].telegram_id, why)]
  /\ UNCHANGED <<now, users, meals, listings, conv, calls>>


(* A listings table whose code column carries no UNIQUE constraint *)
NoUniqueConstraint(code) == FALSE

(* UNIQUE(university_reservation_code) of the listings table *)
UniqueCodeViolated(code) ==
  \E l \in DOMAIN listings : listings[l].university_reservation_code = code

(* session.commit() of the INSERT *)
CreateCommit(p) ==
  /\ pc[p] = "commit"
  /\ txn[p].op = "create"
  /\ LET row == txn[p].new[NULL] IN
     IF UniqueCodeViolated(row.university_reservation_code)
     THEN /\ txn' = [txn EXCEPT ![p] = [@ EXCEPT !.ok = FALSE,
                                                 !.reason = "IntegrityError",
                                                 !.new = NoRows]]
          /\ UNCHANGED listings
     ELSE /\ NextListingId <= MaxListings
          /\ listings' = [l \in DOMAIN listings \cup {NextListingId} |->
                            IF l = NextListingId THEN row ELSE listings[l]]
          /\ txn' = [txn EXCEPT ![p] = [@ EXCEPT !.ok = TRUE, !.reason = "ok",
                                                 !.listing_id = NextListingId,
                                                 !.new = NoRows]]
  /\ pc' = [pc EXCEPT ![p] = "done"]
  /\ UNCHANGED <<now, users, meals, conv, calls>>

----------------------------------------------------------------------------
(* The meal catalog: the admin commands /addmeal and /delmeal and the      *)
(* scheduled job update_meals_from_samad.                                  *)

(* Meal.id is an INTEGER PRIMARY KEY without AUTOINCREMENT: SQLite gives   *)
(* an inserted row one more than the largest id in the table.              *)
NextMealId ==
  IF DOMAIN meals = {} THEN 1
  ELSE 1 + CHOOSE m \in DOMAIN meals : \A k \in DOMAIN meals : k <= m

(* add_meal_confirm calling crud.create_meal; a limit typed as 0 is None *)
CreateMeal(limit, date) ==
  /\ NextMealId <= MaxMeals
  /\ meals' = [m \in DOMAIN meals \cup {NextMealId} |->
                 IF m = NextMealId THEN [price_limit |-> limit, date |-> date]
                 ELSE meals[m]]
  /\ UNCHANGED <<now, users, listings, conv, pc, txn, calls>>

(* SELECT id FROM listings WHERE meal_id = m LIMIT 1 *)
ReferencedMeal(m) == \E l \in DOMAIN listings : listings[l].meal_id = m

(* crud.delete_meal up to db.delete(meal) *)
DeleteMeal(p, m) ==
  /\ pc[p] = "idle"
  /\ IF m \notin DOMAIN meals \/ ReferencedMeal(m)
     THEN /\ pc' = [pc EXCEPT ![p] = "done"]
          /\ txn' = [txn EXCEPT ![p] =
                       [Failed("delete_meal", NULL, NULL,
                               IF m \notin DOMAIN meals THEN "MealNotFound"
                               ELSE "Referenced")
                          EXCEPT !.meal_id = m]]
     ELSE /\ pc' = [pc EXCEPT ![p] = "flush"]
          /\ txn' = [txn EXCEPT ![p] =
                       [Pending("delete_meal", NULL, NULL, NoRows, NoRows, NoCode)
                          EXCEPT !.meal_id = m]]
  /\ UNCHANGED <<now, users, meals, listings, conv, calls>>

(* db.commit(), first half: the flush loads meal.listings to set their     *)
(* meal_id to NULL (the relationship has no cascade); meal_id is NOT NULL, *)
(* so a listing found here makes the flush raise and delete_meal return    *)
(* False.                                                                  *)
DeleteMealFlush(p) ==
  /\ pc[p] = "flush"
  /\ IF ReferencedMeal(txn[p].meal_id)
     THEN /\ pc' = [pc EXCEPT ![p] = "done"]
          /\ txn' = [txn EXCEPT ![p] = [@ EXCEPT !.reason = "IntegrityError"]]
     ELSE /\ pc' = [pc EXCEPT ![p] = "delete"]
          /\ txn' = txn
  /\ UNCHANGED <<now, users, meals, listings, conv, calls>>

(* db.commit(), second half: DELETE FROM meals WHERE id = ? and COMMIT.    *)
(* No PRAGMA foreign_keys is issued, so SQLite does not check the          *)
(* listings that reference the row.                                        *)
DeleteMealCommit(p) ==
  /\ pc[p] = "delete"
  /\ pc' = [pc EXCEPT ![p] = "done"]
  /\ IF txn[p].meal_id \in DOMAIN meals
     THEN /\ meals' = [m \in DOMAIN meals \ {txn[p].meal_id} |-> meals[m]]
          /\ txn' = [txn EXCEPT ![p] = [@ EXCEPT !.ok = TRUE, !.reason = "ok"]]
     ELSE /\ meals' = meals
          /\ txn' = [txn EXCEPT ![p] = [@ EXCEPT !.reason = "StaleDataError"]]
  /\ UNCHANGED <<now, users, listings, conv, calls>>

(* update_meals_from_samad as the scheduler runs it: the function returns  *)
(* at its line 221, before the ingestion and the cleanup that follow.      *)
UpdateMealsFromSamad(p) ==
  /\ pc[p] = "idle"
  /\ pc' = [pc EXCEPT ![p] = "done"]
  /\ txn' = [txn EXCEPT ![p] = Failed("update_meals", NULL, NULL, "returned")]
  /\ UNCHANGED <<now, users, meals, listings, conv, calls>>

----------------------------------------------------------------------------
(* The handler that called the CRUD function returns: its session closes   *)
(* (a session that overlapped it remembers the overlap as NULL, the id     *)
(* being used again by the next call);                                     *)
(* after create_listing, confirm_listing clears user_data and ends the     *)
(* conversation.                                                           *)
Return(p) ==
  /\ pc[p] = "done"
  /\ pc' = [pc EXCEPT ![p] = "idle"]
  /\ txn' = [q \in Sessions |->
               IF q = p THEN IdleTxn
               ELSE [txn[q] EXCEPT !.concurrent =
                       IF p \in @ THEN (@ \ {p}) \cup {NULL} ELSE @]]
  /\ conv' = IF txn[p].op = "create"
             THEN [conv EXCEPT ![get_user_by_telegram_id(txn[p].caller)] = NoConv]
             ELSE conv
  /\ UNCHANGED <<now, users, meals, listings, calls>>

(* datetime.now(timezone.utc) advances.  The model looks at the clock once *)
(* per timeout window, so a deadline is in the future, is now, or is past. *)
ClockStep == PENDING_TIMEOUT_MINUTES
StartTime == ClockStep

Tick ==
  /\ now < StartTime + MaxTicks * ClockStep
  /\ now' = now + ClockStep
  /\ UNCHANGED <<users, meals, listings, conv, pc, txn, calls>>

----------------------------------------------------------------------------
(* The lifecycle of listings that the sell conversation has created *)

(* One listing, created by user 1 for meal 1 at the price ceiling *)
CreatedListings ==
  {[l \in {1} |-> NewListing(1, "ABC123", 1, 1)]}

Init ==
  /\ now = StartTime
  /\ users = UsersTable
  /\ meals = MealsTable
  /\ listings \in CreatedListings
  /\ conv = [u \in DOMAIN UsersTable |-> NoConv]
  /\ pc = [p \in Sessions |-> "idle"]
  /\ txn = [p \in Sessions |-> IdleTxn]
  /\ calls = 0

Next ==
  \/ \E p \in Sessions, l \in ListingIds, tg \in TelegramIds :
       \/ SetListingAwaitingConfirmation(p, l, tg)
       \/ FinalizeListingSale(p, l, tg)
       \/ CancelPendingPurchaseByBuyer(p, l, tg)
       \/ RejectPendingPurchaseBySeller(p, l, tg)
       \/ CancelAvailableListingBySeller(p, l, tg)
  \/ \E p \in Sessions :
       \/ CheckPendingListingsTimeout(p)
       \/ Commit(p)
       \/ CommitFail(p)
       \/ Return(p)
  \/ Tick

Spec == Init /\ [][Next]_vars

----------------------------------------------------------------------------
(* The scheduler runs the sweep every                                      *)
(* BACKGROUND_LISTING_TIMEOUT_CHECK_INTERVAL_MINUTES for as long as the    *)
(* bot runs, the clock advances, and a commit that is awaited completes.   *)

(* the last reading of the clock *)
Horizon == StartTime + MaxTicks * ClockStep

(* calls users make while the sweep keeps running *)
LiveCalls == MaxCalls - 1

(* the job as the interval trigger fires it *)
ScheduledSweep(p) == SweepRun(p) /\ UNCHANGED calls

(* A purchase is initiated early enough for its deadline to pass before    *)
(* the last reading of the clock.                                          *)
LiveNext ==
  \/ \E p \in Sessions, l \in ListingIds, tg \in TelegramIds :
       /\ calls < LiveCalls
       /\ \/ now + PENDING_TIMEOUT_MINUTES < Horizon
               /\ SetListingAwaitingConfirmation(p, l, tg)
          \/ FinalizeListingSale(p, l, tg)
          \/ CancelPendingPurchaseByBuyer(p, l, tg)
          \/ RejectPendingPurchaseBySeller(p, l, tg)
          \/ CancelAvailableListingBySeller(p, l, tg)
  \/ \E p \in Sessions :
       \/ ScheduledSweep(p)
       \/ Commit(p)
       \/ Return(p)
  \/ Tick

LiveSpec ==
  /\ Init /\ [][LiveNext]_vars
  /\ WF_vars(Tick)
  /\ WF_vars(\E p \in Sessions : ScheduledSweep(p))
  /\ \A p \in Sessions : WF_vars(Commit(p)) /\ WF_vars(Return(p))

----------------------------------------------------------------------------
(* The sell conversation on an empty listings table *)

SellInit ==
  /\ now = StartTime
  /\ users = UsersTable
  /\ meals = MealsTable
  /\ listings = NoRows
  /\ conv = [u \in DOMAIN UsersTable |-> NoConv]
  /\ pc = [p \in Sessions |-> "idle"]
  /\ txn = [p \in Sessions |-> IdleTxn]
  /\ calls = 0

SellNext ==
  \/ \E u \in DOMAIN users :
       \/ HandleSellFood(u)
       \/ CancelSellConversation(u)
       \/ \E c \in Codes : ReceiveReservationCode(u, c)
       \/ \E m \in DOMAIN meals \cup {1 + Len(meals)} : ReceiveMealSelection(u, m)
       \/ \E price \in 0..MaxPrice : ReceivePrice(u, price)
       \/ \E p \in Sessions : ConfirmListing(p, u)
  \/ \E p \in Sessions :
       \/ CreateCommit(p)
       \/ CommitFail(p)
       \/ Return(p)

SellSpec == SellInit /\ [][SellNext]_vars

----------------------------------------------------------------------------
(* Selling again a reservation whose listing the seller has cancelled: the *)
(* stored listing can be cancelled while sell conversations enter its code *)

(* the codes of the stored listings, the ones a seller lists again *)
StoredCodes == {listings[l].university_reservation_code : l \in DOMAIN listings}

RelistNext ==
  \/ \E u \in DOMAIN users :
       \/ HandleSellFood(u)
       \/ CancelSellConversation(u)
       \/ \E c \in StoredCodes : ReceiveReservationCode(u, c)
       \/ \E m \in DOMAIN meals : ReceiveMealSelection(u, m)
       \/ \E price \in 0..MaxPrice : ReceivePrice(u, price)
       \/ \E p \in Sessions : ConfirmListing(p, u)
  \/ \E p \in Sessions, l \in DOMAIN listings, tg \in TelegramIds :
       CancelAvailableListingBySeller(p, l, tg)
  \/ \E p \in Sessions :
       \/ Commit(p)
       \/ CreateCommit(p)
       \/ CommitFail(p)
       \/ Return(p)

RelistSpec == Init /\ [][RelistNext]_vars

----------------------------------------------------------------------------
(* The catalog changing under the sell conversation.  Meal 1 was served    *)
(* the day before and still has the listing made for it; meal 2 is today's *)
(* and has no ceiling.                                                     *)

CatalogMeals ==
  <<[price_limit |-> 1, date |-> Today(StartTime) - 1],
    [price_limit |-> NULL, date |-> Today(StartTime)]>>

CatalogInit ==
  /\ now = StartTime
  /\ users = UsersTable
  /\ meals = CatalogMeals
  /\ listings \in CreatedListings
  /\ conv = [u \in DOMAIN UsersTable |-> NoConv]
  /\ pc = [p \in Sessions |-> "idle"]
  /\ txn = [p \in Sessions |-> IdleTxn]
  /\ calls = 0

CatalogNext ==
  \/ \E u \in DOMAIN users :
       \/ HandleSellFood(u)
       \/ CancelSellConversation(u)
       \/ \E c \in Codes : ReceiveReservationCode(u, c)
       \/ \E m \in 1..MaxMeals : ReceiveMealSelection(u, m)
       \/ \E price \in 0..MaxPrice : ReceivePrice(u, price)
       \/ \E p \in Sessions : ConfirmListing(p, u)
  \/ \E limit \in 0..MaxPrice : CreateMeal(limit, Today(now))
  \/ \E p \in Sessions :
       \/ \E m \in 1..MaxMeals : DeleteMeal(p, m)
       \/ DeleteMealFlush(p)
       \/ DeleteMealCommit(p)
       \/ UpdateMealsFromSamad(p)
       \/ CreateCommit(p)
       \/ Return(p)

CatalogSpec == CatalogInit /\ [][CatalogNext]_vars

----------------------------------------------------------------------------
(* The users table growing: crud.get_or_create_user_and_update_info, which *)
(* /start, the buy menu and the sell button call for the Telegram user of  *)
(* the update, and the two writes that make a user able to sell.  The      *)
(* profile columns (username, first and last name, phone number) are not   *)
(* part of the rows of the model.                                          *)

(* Telegram ids of people who have not talked to the bot yet *)
UnseenIds == {14, 15}

(* UNIQUE(telegram_id) of the users table *)
NoUniqueTelegramId(tg) == FALSE

UniqueTelegramIdViolated(tg) ==
  \E u \in DOMAIN users : users[u].telegram_id = tg

(* get_or_create_user_and_update_info up to its commit: a known user is    *)
(* returned, a new one is added to the session                             *)
GetOrCreateUser(p, tg) ==
  /\ pc[p] = "idle"
  /\ IF get_user_by_telegram_id(tg) # NULL
     THEN /\ pc' = [pc EXCEPT ![p] = "done"]
          /\ txn' = [txn EXCEPT ![p] =
                       [Failed("get_or_create_user", NULL, tg, "ok")
                          EXCEPT !.ok = TRUE]]
     ELSE /\ pc' = [pc EXCEPT ![p] = "insert"]
          /\ txn' = [txn EXCEPT ![p] =
                       Pending("get_or_create_user", NULL, tg, NoRows, NoRows,
                               NoCode)]
  /\ UNCHANGED <<now, users, meals, listings, conv, calls>>

(* db.commit() of the new user: the INSERT, refused by the UNIQUE index    *)
(* when a row with the telegram id is there by now (the exception is       *)
(* raised again to the handler)                                            *)
CreateUserCommit(p) ==
  /\ pc[p] = "insert"
  /\ pc' = [pc EXCEPT ![p] = "done"]
  /\ IF UniqueTelegramIdViolated(txn[p].caller)
     THEN /\ users' = users
          /\ txn' = [txn EXCEPT ![p] = [@ EXCEPT !.reason = "IntegrityError"]]
     ELSE /\ Len(users) < MaxUsers
          /\ users' = Append(users, [telegram_id |-> txn[p].caller,
                                     is_verified |-> FALSE,
                                     credit_card_number |-> FALSE])
          /\ txn' = [txn EXCEPT ![p] = [@ EXCEPT !.ok = TRUE, !.reason = "ok"]]
  /\ UNCHANGED <<now, meals, listings, conv, calls>>

(* crud.update_user_verification: the only write to is_verified *)
UpdateUserVerification(tg) ==
  /\ get_user_by_telegram_id(tg) # NULL
  /\ users' = [users EXCEPT ![get_user_by_telegram_id(tg)].is_verified = TRUE]
  /\ UNCHANGED <<now, meals, listings, conv, pc, txn, calls>>

(* crud.update_user_credit_card with the 16 digits the settings            *)
(* conversation accepted                                                   *)
UpdateUserCreditCard(tg) ==
  /\ get_user_by_telegram_id(tg) # NULL
  /\ users' = [users EXCEPT ![get_user_by_telegram_id(tg)].credit_card_number = TRUE]
  /\ UNCHANGED <<now, meals, listings, conv, pc, txn, calls>>

UserNext ==
  \/ \E p \in Sessions, tg \in TelegramIds \cup UnseenIds : GetOrCreateUser(p, tg)
  \/ \E tg \in TelegramIds \cup UnseenIds :
       \/ UpdateUserVerification(tg)
       \/ UpdateUserCreditCard(tg)
  \/ \E p \in Sessions :
       \/ CreateUserCommit(p)
       \/ Return(p)

UserSpec == SellInit /\ [][UserNext]_vars

----------------------------------------------------------------------------
(* handlers/buying.handle_buyer_payment_sent: the buyer's "I have          *)
(* transferred the money" button                                           *)

(* The checks without the comparison of the caller with the pending buyer *)
PaymentSentCheckAnyCaller(lid, tg) ==
  IF lid \notin DOMAIN listings THEN "ListingNotFound"
  ELSE IF listings[lid].status # "AWAITING_CONFIRMATION" THEN "WrongStatus"
  ELSE IF SellerTelegramId(listings[lid]) = NULL THEN "SellerMissing"
  ELSE "ok"

PaymentSentCheck(lid, tg) ==
  IF lid \notin DOMAIN listings THEN "ListingNotFound"
  ELSE IF listings[lid].status # "AWAITING_CONFIRMATION" THEN "WrongStatus"
  ELSE IF get_user_by_telegram_id(tg) = NULL
          \/ listings[lid].pending_buyer_id # get_user_by_telegram_id(tg)
       THEN "NotPendingBuyer"
  ELSE IF SellerTelegramId(listings[lid]) = NULL THEN "SellerMissing"
  ELSE "ok"

(* The handler up to its commit.  A Listing object that was just loaded    *)
(* has no attribute buyer_notified_payment_at, so line 634 always takes    *)
(* the branch that sets it to the time of the call; the attribute is not a *)
(* column, so the object is not dirty and the commit has nothing to flush. *)
HandleBuyerPaymentSent(p, lid, tg) ==
  LET why == PaymentSentCheck(lid, tg) IN
  /\ pc[p] = "idle"
  /\ calls < MaxCalls
  /\ calls' = calls + 1
  /\ IF why = "ok"
     THEN /\ pc' = [pc EXCEPT ![p] = "commit"]
          /\ txn' = [txn EXCEPT ![p] =
                       [Pending("payment_sent", lid, tg, One(lid, listings[lid]),
                                NoRows, NoCode)
                          EXCEPT !.buyer_notified_payment_at = now]]
     ELSE /\ pc' = [pc EXCEPT ![p] = "done"]
          /\ txn' = [txn EXCEPT ![p] = Failed("payment_sent", lid, tg, why)]
  /\ UNCHANGED <<now, users, meals, listings, conv>>

(* The purchase as the buyer sees it: initiate, claim the payment, cancel; *)
(* the seller finalizes; the sweep reverts.                                *)
PayNext ==
  \/ \E p \in Sessions, l \in ListingIds, tg \in TelegramIds :
       \/ SetListingAwaitingConfirmation(p, l, tg)
       \/ HandleBuyerPaymentSent(p, l, tg)
       \/ FinalizeListingSale(p, l, tg)
       \/ CancelPendingPurchaseByBuyer(p, l, tg)
  \/ \E p \in Sessions :
       \/ CheckPendingListingsTimeout(p)
       \/ Commit(p)
       \/ CommitFail(p)
       \/ Return(p)
  \/ Tick

PaySpec == Init /\ [][PayNext]_vars

----------------------------------------------------------------------------
(* The timeout job over a table of two listings: purchases start at        *)
(* different clock readings, so that one run of the job meets a deadline   *)
(* that has passed, a deadline that is the present instant, and rows in    *)
(* other statuses.                                                          *)

(* Two listings of user 1, one per meal *)
TwoCreatedListings ==
  {[l \in {1, 2} |->
      IF l = 1 THEN NewListing(1, "ABC123", 1, 1) ELSE NewListing(1, "XYZ789", 2, 2)]}

SweepInit ==
  /\ now = StartTime
  /\ users = UsersTable
  /\ meals = MealsTable
  /\ listings \in TwoCreatedListings
  /\ conv = [u \in DOMAIN UsersTable |-> NoConv]
  /\ pc = [p \in Sessions |-> "idle"]
  /\ txn = [p \in Sessions |-> IdleTxn]
  /\ calls = 0

SweepNext ==
  \/ \E p \in Sessions, l \in ListingIds, tg \in TelegramIds :
       \/ SetListingAwaitingConfirmation(p, l, tg)
       \/ FinalizeListingSale(p, l, tg)
  \/ \E p \in Sessions :
       \/ CheckPendingListingsTimeout(p)
       \/ Commit(p)
       \/ CommitFail(p)
       \/ Return(p)
  \/ Tick

SweepSpec == SweepInit /\ [][SweepNext]_vars

----------------------------------------------------------------------------
(* The buying handlers around the CRUD calls (handlers/buying.py): after a *)
(* call that returned None the handler reads the listing again, in the     *)
(* same session, and chooses the text for the user from what it reads      *)
(* then.  pc "recheck" is the handler between the call and that read.      *)

Message(kind, status) == [kind |-> kind, status |-> status]

(* handle_confirm_purchase: "Check Failure Reason IF update failed" *)
ConfirmPurchaseError(lid, tg) ==
  LET buyer == get_user_by_telegram_id(tg) IN
  IF lid \in DOMAIN listings /\ buyer # NULL /\ listings[lid].seller_id = buyer
  THEN Message("SelfPurchase", "none")
  ELSE IF lid \in DOMAIN listings /\ listings[lid].status # "AVAILABLE"
  THEN Message("NotAvailable", listings[lid].status)
  ELSE IF lid \notin DOMAIN listings THEN Message("ListingNotFound", "none")
  ELSE Message("UpdateError", "none")

(* handle_seller_confirmation: the branch "elif not finalized_listing" *)
SellerConfirmationError(lid, tg) ==
  IF lid \notin DOMAIN listings THEN Message("ListingNotFound", "none")
  ELSE IF SellerTelegramId(listings[lid]) = NULL
          \/ SellerTelegramId(listings[lid]) # tg
  THEN Message("NotSeller", "none")
  ELSE IF listings[lid].status = "SOLD" THEN Message("AlreadySold", "SOLD")
  ELSE IF listings[lid].status # "AWAITING_CONFIRMATION"
  THEN Message("WrongStatus", listings[lid].status)
  ELSE Message("UpdateError", "none")

(* A CRUD call made by a handler that examines a None result; snap keeps   *)
(* the row the refused call had read.                                      *)
HandlerEnter(p, op, lid, tg, why, new, code) ==
  /\ pc[p] = "idle"
  /\ calls < MaxCalls
  /\ calls' = calls + 1
  /\ IF why = "ok"
     THEN /\ pc' = [pc EXCEPT ![p] = "commit"]
          /\ txn' = [txn EXCEPT ![p] = Pending(op, lid, tg, One(lid, listings[lid]),
                                               One(lid, new), code)]
     ELSE /\ pc' = [pc EXCEPT ![p] = "recheck"]
          /\ txn' = [txn EXCEPT ![p] =
                       [Failed(op, lid, tg, why) EXCEPT !.snap =
                          IF lid \in DOMAIN listings THEN One(lid, listings[lid])
                          ELSE NoRows]]
  /\ UNCHANGED <<now, users, meals, listings, conv>>

(* handle_confirm_purchase up to the return of the CRUD call *)
HandleConfirmPurchase(p, lid, tg) ==
  LET why == AwaitingCheck(lid, tg) IN
  HandlerEnter(p, "initiate", lid, tg, why,
               IF why = "ok"
               THEN AwaitingRow(listings[lid], get_user_by_telegram_id(tg), now)
               ELSE NULL,
               NoCode)

(* handle_seller_confirmation up to the return of the CRUD call *)
HandleSellerConfirmation(p, lid, tg) ==
  LET why == FinalizeCheck(lid, tg) IN
  HandlerEnter(p, "finalize", lid, tg, why,
               IF why = "ok" THEN SoldRow(listings[lid], now) ELSE NULL,
               IF why = "ok" THEN listings[lid].university_reservation_code
               ELSE NoCode)

(* session.commit() raises inside the CRUD call of one of these handlers:  *)
(* the call rolls back and returns None, and the handler goes on to its    *)
(* second read.                                                            *)
HandlerCommitFail(p) ==
  /\ pc[p] = "commit"
  /\ txn[p].op \in {"initiate", "finalize"}
  /\ pc' = [pc EXCEPT ![p] = "recheck"]
  /\ txn' = [txn EXCEPT ![p] = [@ EXCEPT !.ok = FALSE, !.reason = "StorageFailure",
                                         !.code = NoCode, !.snap = NoRows,
                                         !.new = NoRows]]
  /\ UNCHANGED <<now, users, meals, listings, conv, calls>>

(* The second read and the choice of the text *)
Recheck(p) ==
  /\ pc[p] = "recheck"
  /\ LET msg == IF txn[p].op = "initiate"
                THEN ConfirmPurchaseError(txn[p].listing_id, txn[p].caller)
                ELSE SellerConfirmationError(txn[p].listing_id, txn[p].caller)
     IN txn' = [txn EXCEPT ![p] = [@ EXCEPT !.error_message = msg.kind,
                                            !.error_status = msg.status]]
  /\ pc' = [pc EXCEPT ![p] = "done"]
  /\ UNCHANGED <<now, users, meals, listings, conv, calls>>

HandlerNext ==
  \/ \E p \in Sessions, l \in ListingIds, tg \in TelegramIds :
       \/ HandleConfirmPurchase(p, l, tg)
       \/ HandleSellerConfirmation(p, l, tg)
       \/ CancelPendingPurchaseByBuyer(p, l, tg)
       \/ CancelAvailableListingBySeller(p, l, tg)
  \/ \E p \in Sessions :
       \/ Recheck(p)
       \/ Commit(p)
       \/ HandlerCommitFail(p)
       \/ Return(p)
  \/ Tick

HandlerSpec == Init /\ [][HandlerNext]_vars

----------------------------------------------------------------------------
(* Storage failures in all six state-machine operations: one more seller   *)
(* lists a second reservation while the first listing goes through its     *)
(* lifecycle, and session.commit() or the db.refresh() after it may raise. *)

(* db.commit() went through and the db.refresh(listing) after it raises:   *)
(* the except branch has nothing left to roll back and the function        *)
(* returns None.  cancel_available_listing_by_seller does not refresh.     *)
CommitThenRefreshFail(p) ==
  /\ pc[p] = "commit"
  /\ txn[p].op \in {"initiate", "finalize", "buyer_cancel", "seller_reject"}
  /\ listings' = [l \in DOMAIN listings |->
                    IF l \in DOMAIN txn[p].new
                    THEN Flush(listings[l], txn[p].snap[l], txn[p].new[l])
                    ELSE listings[l]]
  /\ pc' = [pc EXCEPT ![p] = "done"]
  /\ txn' = [q \in Sessions |->
               IF q = p THEN [txn[p] EXCEPT !.ok = FALSE, !.reason = "RefreshFailure",
                                            !.code = NoCode,
                                            !.snap = NoRows, !.new = NoRows]
               ELSE IF Overlapped(p, q)
                    THEN [txn[q] EXCEPT !.concurrent = @ \cup {p}]
                    ELSE txn[q]]
  /\ UNCHANGED <<now, users, meals, conv, calls>>

(* The seller and the inputs of the second listing *)
SecondSeller == 2
SecondCode == "XYZ789"
SecondMeal == 2
SecondPrice == 1

StorageNext ==
  \/ HandleSellFood(SecondSeller)
  \/ ReceiveReservationCode(SecondSeller, SecondCode)
  \/ ReceiveMealSelection(SecondSeller, SecondMeal)
  \/ ReceivePrice(SecondSeller, SecondPrice)
  \/ \E p \in Sessions : ConfirmListing(p, SecondSeller)
  \/ \E p \in Sessions, l \in ListingIds, tg \in TelegramIds :
       \/ SetListingAwaitingConfirmation(p, l, tg)
       \/ FinalizeListingSale(p, l, tg)
       \/ CancelPendingPurchaseByBuyer(p, l, tg)
       \/ RejectPendingPurchaseBySeller(p, l, tg)
       \/ CancelAvailableListingBySeller(p, l, tg)
  \/ \E p \in Sessions :
       \/ Commit(p)
       \/ CreateCommit(p)
       \/ CommitFail(p)
       \/ CommitThenRefreshFail(p)
       \/ Return(p)

StorageSpec == Init /\ [][StorageNext]_vars

----------------------------------------------------------------------------
(* All seven lifecycle operations over a table of two listings, called by  *)
(* the seller and by one buyer.                                            *)

FrameCallers == {11, 12}

FrameNext ==
  \/ \E p \in Sessions, l \in DOMAIN listings, tg \in FrameCallers :
       \/ SetListingAwaitingConfirmation(p, l, tg)
       \/ HandleBuyerPaymentSent(p, l, tg)
       \/ FinalizeListingSale(p, l, tg)
       \/ CancelPendingPurchaseByBuyer(p, l, tg)
       \/ RejectPendingPurchaseBySeller(p, l, tg)
       \/ CancelAvailableListingBySeller(p, l, tg)
  \/ \E p \in Sessions :
       \/ CheckPendingListingsTimeout(p)
       \/ Commit(p)
       \/ Return(p)
  \/ Tick

FrameSpec == SweepInit /\ [][FrameNext]_vars

----------------------------------------------------------------------------
(* handle_seller_confirmation after a finalize_listing_sale that returned  *)
(* the listing and the code: the user the code is sent to is               *)
(* finalized_listing.buyer, the user whose id the call has just stored as  *)
(* buyer_id.  Evaluated in the state in which session p commits.           *)
CodeRecipient(p) ==
  LET row == txn[p].new[txn[p].listing_id] IN
  IF row.buyer_id \in DOMAIN users THEN users[row.buyer_id].telegram_id ELSE NULL

(* The timeout job as the interval trigger of main.py runs it: once every  *)
(* BACKGROUND_LISTING_TIMEOUT_CHECK_INTERVAL_MINUTES, one run at a time,   *)
(* each run over before the next one is due.                               *)

BACKGROUND_LISTING_TIMEOUT_CHECK_INTERVAL_MINUTES == 5

(* the run of the current interval is over *)
CycleSwept(p) == pc[p] = "done" /\ txn[p].op = "sweep"

(* the trigger fires the job once per interval *)
CycleSweep(p) ==
  /\ \A q \in Sessions : txn[q].op # "sweep"
  /\ ScheduledSweep(p)

(* The next interval begins when the run of this one is over; a handler's  *)
(* transaction, a matter of milliseconds, does not span an interval.       *)
CycleTick(p) ==
  /\ CycleSwept(p)
  /\ \A q \in Sessions : pc[q] # "commit"
  /\ now < Horizon
  /\ now' = now + BACKGROUND_LISTING_TIMEOUT_CHECK_INTERVAL_MINUTES
  /\ pc' = [pc EXCEPT ![p] = "idle"]
  /\ txn' = [q \in Sessions |->
               IF q = p THEN IdleTxn
               ELSE [txn[q] EXCEPT !.concurrent =
                       IF p \in @ THEN (@ \ {p}) \cup {NULL} ELSE @]]
  /\ UNCHANGED <<users, meals, listings, conv, calls>>

CycleNext ==
  \/ \E p \in Sessions, l \in ListingIds, tg \in TelegramIds :
       \/ SetListingAwaitingConfirmation(p, l, tg)
       \/ FinalizeListingSale(p, l, tg)
       \/ CancelPendingPurchaseByBuyer(p, l, tg)
       \/ RejectPendingPurchaseBySeller(p, l, tg)
       \/ CancelAvailableListingBySeller(p, l, tg)
  \/ \E p \in Sessions :
       \/ CycleSweep(p)
       \/ Commit(p)
       \/ ~CycleSwept(p) /\ Return(p)
       \/ CycleTick(p)

CycleSpec == Init /\ [][CycleNext]_vars

----------------------------------------------------------------------------
(* Properties of the listing lifecycle *)

(* Session p has returned from the CRUD function op and its handler has    *)
(* not yet returned.                                                       *)
Finished(p, op) == pc[p] = "done" /\ txn[p].op = op

(* Session q ran concurrently with session p: p committed to a row that q  *)
(* had already read and had not yet written.                               *)
Raced(p, q) == p # q /\ p \in txn[q].concurrent

Succeeded(p) == txn[p].ok

StorageFailed(p) == txn[p].reason = "StorageFailure"

(* The CRUD functions that leave AWAITING_CONFIRMATION *)
PendingExits == {"finalize", "buyer_cancel", "seller_reject", "sweep"}

(* C1: when two distinct buyers call initiate_purchase concurrently on the *)
(* same AVAILABLE listing, exactly one call succeeds, the other fails with *)
(* NotAvailable, and the pending buyer is the buyer whose call succeeded.  *)
C1_OneBuyerWins ==
  \A p, q \in Sessions :
     (/\ Finished(p, "initiate") /\ Finished(q, "initiate")
      /\ Raced(p, q)
      /\ txn[p].listing_id = txn[q].listing_id
      /\ txn[p].caller # txn[q].caller
      /\ Succeeded(p)
      /\ ~StorageFailed(q))
     => /\ ~Succeeded(q)
        /\ txn[q].reason = "NotAvailable"
        /\ listings[txn[p].listing_id].pending_buyer_id
             = get_user_by_telegram_id(txn[p].caller)

(* C2: of concurrent finalize_sale, cancel_pending_by_buyer,               *)
(* reject_pending_by_seller and sweep invocations on one pending window,   *)
(* exactly one succeeds; every other one fails with WrongStatus.           *)
C2_OneExitWins ==
  \A p, q \in Sessions :
     (/\ pc[p] = "done" /\ txn[p].op \in PendingExits
      /\ pc[q] = "done" /\ txn[q].op \in PendingExits
      /\ Raced(p, q)
      /\ Succeeded(p)
      /\ ~StorageFailed(q))
     => /\ ~Succeeded(q)
        /\ txn[q].reason = "WrongStatus"

(* C3: no double-selling: a listing that is SOLD stays SOLD with the same  *)
(* buyer in every later state.                                             *)
C3_SoldIsFinal ==
  [][\A l \in DOMAIN listings :
       listings[l].status = "SOLD"
       => /\ listings'[l].status = "SOLD"
          /\ listings'[l].buyer_id = listings[l].buyer_id]_vars

(* C5: a listing is AWAITING_CONFIRMATION if and only if pending_until is  *)
(* not null and a pending buyer is set.                                    *)
C5_PendingFieldsIffAwaiting ==
  \A l \in DOMAIN listings :
     listings[l].status = "AWAITING_CONFIRMATION"
     <=> (listings[l].pending_until # NULL /\ listings[l].pending_buyer_id # NULL)

(* C6: every listing has either no buyer and no pending buyer (AVAILABLE,  *)
(* CANCELLED, EXPIRED), or a pending buyer and no buyer                    *)
(* (AWAITING_CONFIRMATION), or a buyer and no pending buyer (SOLD).        *)
C6_BuyerFieldsMatchStatus ==
  \A l \in DOMAIN listings :
     LET row == listings[l] IN
     \/ /\ row.status \in {"AVAILABLE", "CANCELLED", "EXPIRED"}
        /\ row.buyer_id = NULL /\ row.pending_buyer_id = NULL
     \/ /\ row.status = "AWAITING_CONFIRMATION"
        /\ row.buyer_id = NULL /\ row.pending_buyer_id # NULL
     \/ /\ row.status = "SOLD"
        /\ row.buyer_id # NULL /\ row.pending_buyer_id = NULL

(* C7: no listing has its seller as pending buyer or as buyer;             *)
(* initiate_purchase by the listing's own seller fails (with SelfPurchase  *)
(* when the listing is AVAILABLE) and leaves the listings unchanged.       *)
C7_NoSelfPurchase ==
  /\ [](\A l \in DOMAIN listings :
          /\ listings[l].pending_buyer_id # listings[l].seller_id
          /\ listings[l].buyer_id # listings[l].seller_id)
  /\ [][\A p \in Sessions :
          (/\ pc[p] = "idle" /\ pc'[p] # "idle"
           /\ txn'[p].op = "initiate"
           /\ txn'[p].listing_id \in DOMAIN listings
           /\ get_user_by_telegram_id(txn'[p].caller)
                = listings[txn'[p].listing_id].seller_id)
          => /\ pc'[p] = "done"
             /\ ~txn'[p].ok
             /\ listings[txn'[p].listing_id].status = "AVAILABLE"
                  => txn'[p].reason = "SelfPurchase"
             /\ listings' = listings]_vars

(* A seller has tried to buy their own listing and was refused *)
C7_SelfPurchaseRefused ==
  \E p \in Sessions : Finished(p, "initiate") /\ txn[p].reason = "SelfPurchase"

(* C8: finalize_sale is not callable twice: a finalize_sale by the seller  *)
(* that returns when the listing is already SOLD fails with WrongStatus    *)
(* and leaves every field of the listing unchanged.                        *)
C8_FinalizeOnce ==
  [][\A p \in Sessions :
       (/\ pc[p] # "done" /\ pc'[p] = "done"
        /\ txn'[p].op = "finalize"
        /\ txn'[p].listing_id \in DOMAIN listings
        /\ listings[txn'[p].listing_id].status = "SOLD"
        /\ SellerTelegramId(listings[txn'[p].listing_id]) = txn'[p].caller
        /\ txn'[p].reason # "StorageFailure")
       => /\ ~txn'[p].ok
          /\ txn'[p].reason = "WrongStatus"
          /\ listings' = listings]_vars

(* C10: create_listing, initiate_purchase(buyer), finalize_sale(seller)    *)
(* with no other call in between yields a SOLD listing whose buyer is the  *)
(* initiating buyer, with pending buyer and pending_until null, and        *)
(* finalize_sale returns the listing's reservation code.                   *)
C10_RoundTrip ==
  [][\A p \in Sessions :
       (/\ calls = 2
        /\ pc[p] = "commit" /\ txn[p].op = "finalize"
        /\ pc'[p] = "done" /\ txn'[p].reason # "StorageFailure")
       => LET l == txn[p].listing_id IN
          /\ listings'[l].status = "SOLD"
          /\ listings'[l].buyer_id # NULL
          /\ listings'[l].buyer_id = listings[l].pending_buyer_id
          /\ \A q \in Sessions :
               Finished(q, "initiate") /\ Succeeded(q)
               => listings'[l].buyer_id = get_user_by_telegram_id(txn[q].caller)
          /\ listings'[l].buyer_id # listings'[l].seller_id
          /\ listings'[l].pending_buyer_id = NULL
          /\ listings'[l].pending_until = NULL
          /\ txn'[p].ok
          /\ txn'[p].code = listings'[l].university_reservation_code
          /\ txn'[p].code \in Codes]_vars

(* The second call of the run was a finalize_sale and it has succeeded *)
C10_RoundTripDone ==
  \E p \in Sessions :
     /\ calls = 2
     /\ Finished(p, "finalize") /\ Succeeded(p)
     /\ listings[txn[p].listing_id].status = "SOLD"
     /\ listings[txn[p].listing_id].buyer_id \in DOMAIN users

----------------------------------------------------------------------------
(* Properties of listing creation *)

ActiveStatuses == {"AVAILABLE", "AWAITING_CONFIRMATION", "SOLD"}

(* C4: for every reservation code at most one listing with that code has   *)
(* status AVAILABLE, AWAITING_CONFIRMATION or SOLD, also when two sellers  *)
(* run create_listing with the same code concurrently.                     *)
C4_OneActiveListingPerCode ==
  \A l1, l2 \in DOMAIN listings :
     (/\ l1 # l2
      /\ listings[l1].status \in ActiveStatuses
      /\ listings[l2].status \in ActiveStatuses)
     => listings[l1].university_reservation_code
          # listings[l2].university_reservation_code

(* Two create_listing calls passed the existence check with the same code  *)
(* and the second INSERT was refused.                                      *)
C4_SecondInsertRefused ==
  \E p \in Sessions :
     /\ Finished(p, "create") /\ txn[p].reason = "IntegrityError"
     /\ \E l \in DOMAIN listings : listings[l].status \in ActiveStatuses

(* the price ceiling of the meal a listing is for, NULL if it has none *)
CeilingOf(row) ==
  IF row.meal_id \in DOMAIN meals THEN meals[row.meal_id].price_limit ELSE NULL

----------------------------------------------------------------------------
(* Properties of runs in which the calls follow one another *)

(* No other session committed to the rows session p read before p commits *)
Unraced(p) == txn[p].concurrent = {}

(* Session p commits the UPDATE of the CRUD function op in this step *)
Commits(p, op) ==
  /\ pc[p] = "commit" /\ txn[p].op = op
  /\ pc'[p] = "done" /\ txn'[p].ok

(* Session p calls the CRUD function op on listing l in this step *)
Calls(p, op, l) ==
  /\ pc[p] = "idle" /\ pc'[p] # "idle"
  /\ txn'[p].op = op /\ txn'[p].listing_id = l

(* C11: while B1 is pending, B2's initiate_purchase fails; B1's            *)
(* cancel_pending_by_buyer makes the listing AVAILABLE with no pending     *)
(* buyer; B2's initiate_purchase then succeeds with pending buyer B2; the  *)
(* seller's finalize_sale yields SOLD with buyer B2 and returns the code   *)
(* the listing was created with.                                           *)
C11_ReclaimAfterBuyerCancel ==
  [][\A p \in Sessions : \A l \in DOMAIN listings :
       /\ (Calls(p, "initiate", l) /\ listings[l].status = "AWAITING_CONFIRMATION")
          => /\ pc'[p] = "done" /\ ~txn'[p].ok
             /\ txn'[p].reason = "NotAvailable"
             /\ listings' = listings
       /\ (Commits(p, "buyer_cancel") /\ Unraced(p) /\ txn[p].listing_id = l)
          => /\ listings'[l].status = "AVAILABLE"
             /\ listings'[l].pending_buyer_id = NULL
             /\ listings'[l].pending_until = NULL
       /\ (Calls(p, "initiate", l) /\ listings[l].status = "AVAILABLE"
           /\ listings[l].pending_buyer_id = NULL
           /\ get_user_by_telegram_id(txn'[p].caller) \notin {NULL, listings[l].seller_id})
          => pc'[p] = "commit"
       /\ (Commits(p, "initiate") /\ Unraced(p) /\ txn[p].listing_id = l)
          => /\ listings'[l].status = "AWAITING_CONFIRMATION"
             /\ listings'[l].pending_buyer_id = get_user_by_telegram_id(txn[p].caller)
             /\ listings'[l].buyer_id = NULL
       /\ (Commits(p, "finalize") /\ Unraced(p) /\ txn[p].listing_id = l)
          => /\ listings'[l].status = "SOLD"
             /\ listings'[l].buyer_id = listings[l].pending_buyer_id
             /\ listings'[l].buyer_id # NULL
             /\ listings'[l].pending_buyer_id = NULL
             /\ txn'[p].code = listings[l].university_reservation_code
             /\ \E c \in CreatedListings : txn'[p].code = c[l].university_reservation_code
     ]_vars

(* Four calls were made: a buyer initiated and cancelled, another buyer    *)
(* initiated (the session is still open) and the seller finalized.         *)
C11_SoldToSecondBuyer ==
  \E p, q \in Sessions :
     /\ calls = 4
     /\ Finished(p, "finalize") /\ Succeeded(p) /\ Unraced(p)
     /\ Finished(q, "initiate") /\ Succeeded(q) /\ Unraced(q)
     /\ LET row == listings[txn[p].listing_id] IN
        /\ row.cancelled_by_buyer_at # NULL
        /\ row.status = "SOLD"
        /\ row.buyer_id = get_user_by_telegram_id(txn[q].caller)

(* Session p starts a run of the sweep in this step *)
Sweeps(p) ==
  /\ pc[p] = "idle" /\ pc'[p] # "idle"
  /\ txn'[p].op = "sweep"

(* C12: a sweep that runs when a listing is AWAITING_CONFIRMATION past its *)
(* deadline makes it AVAILABLE with pending buyer and pending_until null;  *)
(* a finalize_sale by the seller after that fails with WrongStatus and     *)
(* does not sell the listing.                                              *)
C12_LateConfirmBlocked ==
  [][\A p \in Sessions : \A l \in DOMAIN listings :
       /\ (Sweeps(p) /\ l \in Expired(now) /\ listings[l].pending_buyer_id # NULL)
          => pc'[p] = "commit" /\ l \in DOMAIN txn'[p].new
       /\ (Commits(p, "sweep") /\ Unraced(p) /\ l \in DOMAIN txn[p].new)
          => /\ listings'[l].status = "AVAILABLE"
             /\ listings'[l].pending_buyer_id = NULL
             /\ listings'[l].pending_until = NULL
       /\ (Calls(p, "finalize", l) /\ listings[l].status = "AVAILABLE"
           /\ txn'[p].caller = SellerTelegramId(listings[l]))
          => /\ pc'[p] = "done" /\ ~txn'[p].ok
             /\ txn'[p].reason = "WrongStatus"
             /\ listings' = listings
     ]_vars

(* After an initiate, a sweep past the deadline and a finalize_sale by the *)
(* seller, the finalize_sale has failed and the listing is AVAILABLE.      *)
C12_LateConfirmRefused ==
  \E p, q \in Sessions :
     /\ calls = 3
     /\ Finished(q, "sweep") /\ Succeeded(q) /\ Unraced(q)
     /\ Finished(p, "finalize") /\ txn[p].reason = "WrongStatus"
     /\ listings[txn[p].listing_id].status = "AVAILABLE"
     /\ listings[txn[p].listing_id].pending_buyer_id = NULL
     /\ txn[p].caller = SellerTelegramId(listings[txn[p].listing_id])

(* C13: a second sweep right after a sweep changes no listing and reports  *)
(* none: what a sweep has reverted no longer matches its SELECT, and a     *)
(* sweep whose SELECT finds nothing writes nothing.                        *)
C13_SweepIdempotent ==
  [][\A p \in Sessions :
       /\ (Commits(p, "sweep") /\ Unraced(p))
          => /\ \A l \in DOMAIN txn[p].new :
                  ~(/\ listings'[l].status = "AWAITING_CONFIRMATION"
                    /\ listings'[l].pending_until # NULL
                    /\ listings'[l].pending_until < now')
             /\ \A l \in DOMAIN listings \ DOMAIN txn[p].new :
                  listings'[l] = listings[l]
       /\ (Sweeps(p) /\ Expired(now) = {})
          => /\ pc'[p] = "done"
             /\ txn'[p].reason = "NothingExpired"
             /\ listings' = listings
     ]_vars

(* One sweep has reverted the listing; the other sweep of the run found    *)
(* nothing to revert.                                                      *)
C13_SecondSweepFoundNothing ==
  \E p, q \in Sessions :
     /\ calls = 3
     /\ Finished(q, "sweep") /\ Succeeded(q) /\ Unraced(q)
     /\ Finished(p, "sweep") /\ txn[p].reason = "NothingExpired"
     /\ \A l \in DOMAIN listings : listings[l].status = "AVAILABLE"

(* C14: a sweep changes only rows that at its commit are still             *)
(* AWAITING_CONFIRMATION with pending_until < now; it never reverts a SOLD *)
(* listing and never clears the pending buyer of a newer pending window.   *)
C14_SweepOnlyExpiredAtCommit ==
  [][\A p \in Sessions :
       Commits(p, "sweep")
       => \A l \in DOMAIN txn[p].new :
            ~(/\ listings[l].status = "AWAITING_CONFIRMATION"
              /\ listings[l].pending_until # NULL
              /\ listings[l].pending_until < now)
            => listings'[l] = listings[l]]_vars

(* C15: with the sweep scheduled again and again and the clock advancing,  *)
(* every listing that is AWAITING_CONFIRMATION eventually is not.          *)
C15_PendingEventuallyLeft ==
  \A l \in 1..MaxListings :
     (l \in DOMAIN listings /\ listings[l].status = "AWAITING_CONFIRMATION")
     ~> (l \in DOMAIN listings /\ listings[l].status # "AWAITING_CONFIRMATION")

(* A sweep has reverted a listing nobody else had taken out of             *)
(* AWAITING_CONFIRMATION.                                                  *)
C15_RevertedBySweep ==
  \E p \in Sessions :
     /\ calls = 1
     /\ Finished(p, "sweep") /\ Succeeded(p)
     /\ \E l \in DOMAIN listings :
          listings[l].status = "AVAILABLE" /\ listings[l].pending_until = NULL

(* the only listings that carry the code are CANCELLED ones *)
OnlyCancelled(code) ==
  /\ \E l \in DOMAIN listings : listings[l].university_reservation_code = code
  /\ \A l \in DOMAIN listings :
        listings[l].university_reservation_code = code
           => listings[l].status = "CANCELLED"

(* C16: check_listing_exists_by_code is true iff a listing with the code   *)
(* is neither CANCELLED nor EXPIRED, and once the only listing with a code *)
(* is CANCELLED, create_listing with that code for an existing meal        *)
(* succeeds and inserts a new AVAILABLE listing (storage permitting).      *)
C16_RelistAfterCancel ==
  [][\A p \in Sessions :
       /\ \A c \in Codes :
            check_listing_exists_by_code(c)
              <=> \E l \in DOMAIN listings :
                     /\ listings[l].university_reservation_code = c
                     /\ listings[l].status \notin {"CANCELLED", "EXPIRED"}
       /\ (/\ pc[p] = "commit" /\ txn[p].op = "create"
           /\ pc'[p] = "done" /\ ~StorageFailed(p)'
           /\ OnlyCancelled(txn[p].new[NULL].university_reservation_code))
          => /\ Succeeded(p)'
             /\ \E l \in DOMAIN listings' \ DOMAIN listings :
                   /\ listings'[l].status = "AVAILABLE"
                   /\ listings'[l].university_reservation_code
                        = txn[p].new[NULL].university_reservation_code]_vars

C21_TelegramIdUnique ==
  /\ \A u, v \in DOMAIN users :
        users[u].telegram_id = users[v].telegram_id => u = v
  /\ \A p, q \in Sessions :
        (/\ p # q
         /\ Finished(p, "get_or_create_user") /\ Finished(q, "get_or_create_user")
         /\ txn[p].caller = txn[q].caller
         /\ txn[p].reason # "none" /\ txn[q].reason # "none")
        => Cardinality({u \in DOMAIN users :
                          users[u].telegram_id = txn[p].caller}) = 1

(* Two overlapping calls for the unseen id 14: one inserted the user, the  *)
(* other was refused by the UNIQUE index.                                  *)
C21_SecondCreateRefused ==
  \E p, q \in Sessions :
     /\ Finished(p, "get_or_create_user") /\ Succeeded(p)
     /\ Finished(q, "get_or_create_user") /\ txn[q].reason = "IntegrityError"
     /\ txn[p].caller = 14 /\ txn[q].caller = 14
     /\ Cardinality({u \in DOMAIN users : users[u].telegram_id = 14}) = 1

(* C22: cancel_available_by_seller called by anybody but the seller of the *)
(* listing, or on a listing that is not AVAILABLE, fails and changes       *)
(* nothing; called by the seller on an AVAILABLE listing it sets status    *)
(* CANCELLED and cancelled_at to the time of the call and nothing else.    *)
C22_CancelAvailable ==
  [][\A p \in Sessions : \A l \in DOMAIN listings :
       /\ (/\ Calls(p, "cancel_available", l)
           /\ \/ listings[l].status # "AVAILABLE"
              \/ txn'[p].caller # SellerTelegramId(listings[l]))
          => /\ pc'[p] = "done" /\ ~txn'[p].ok
             /\ txn'[p].reason \in {"NotSeller", "WrongStatus"}
             /\ listings' = listings
       /\ (/\ Calls(p, "cancel_available", l)
           /\ listings[l].status = "AVAILABLE"
           /\ txn'[p].caller = SellerTelegramId(listings[l]))
          => /\ pc'[p] = "commit"
             /\ txn'[p].new[l] = [listings[l] EXCEPT !.status = "CANCELLED",
                                                     !.cancelled_at = now]
       /\ (Commits(p, "cancel_available") /\ Unraced(p) /\ txn[p].listing_id = l)
          => /\ listings'[l] = txn[p].new[l]
             /\ listings'[l].status = "CANCELLED"
             /\ listings'[l].cancelled_at # NULL
     ]_vars

(* The seller has cancelled the listing, and a second cancellation of the  *)
(* CANCELLED listing by the seller has failed.                             *)
C22_CancelledThenRefused ==
  \E p, q \in Sessions :
     /\ Finished(p, "cancel_available") /\ Succeeded(p) /\ Unraced(p)
     /\ Finished(q, "cancel_available") /\ txn[q].reason = "WrongStatus"
     /\ txn[q].listing_id = txn[p].listing_id
     /\ txn[q].caller = SellerTelegramId(listings[txn[p].listing_id])
     /\ listings[txn[p].listing_id].status = "CANCELLED"
     /\ listings[txn[p].listing_id].cancelled_at # NULL

(* C23: a listing that is CANCELLED stays CANCELLED: no later step, and no *)
(* initiate_purchase that read the listing before the cancellation, gives  *)
(* it another status.                                                      *)
C23_CancelledIsFinal ==
  [][\A l \in DOMAIN listings :
       listings[l].status = "CANCELLED" => listings'[l].status = "CANCELLED"]_vars

(* C24: finalize_sale and reject_pending_by_seller called on an            *)
(* AWAITING_CONFIRMATION listing by anybody but its seller, the pending    *)
(* buyer included, fail with NotSeller and change nothing; no UPDATE of    *)
(* either operation waits for its commit on behalf of another caller than  *)
(* the seller.                                                             *)
C24_SellerOnly ==
  /\ [](\A p \in Sessions :
          (pc[p] = "commit" /\ txn[p].op \in {"finalize", "seller_reject"})
          => txn[p].caller = SellerTelegramId(txn[p].snap[txn[p].listing_id]))
  /\ [][\A p \in Sessions : \A l \in DOMAIN listings :
          (/\ Calls(p, "finalize", l) \/ Calls(p, "seller_reject", l)
           /\ listings[l].status = "AWAITING_CONFIRMATION"
           /\ txn'[p].caller # SellerTelegramId(listings[l]))
          => /\ pc'[p] = "done" /\ ~txn'[p].ok
             /\ txn'[p].reason = "NotSeller"
             /\ listings' = listings]_vars

(* The pending buyer has tried to finalize and somebody who is not the     *)
(* seller has tried to reject; both were refused and the listing is still  *)
(* AWAITING_CONFIRMATION.                                                  *)
C24_NotSellerRefused ==
  \E p, q \in Sessions :
     /\ Finished(p, "finalize") /\ txn[p].reason = "NotSeller"
     /\ Finished(q, "seller_reject") /\ txn[q].reason = "NotSeller"
     /\ txn[p].listing_id = txn[q].listing_id
     /\ txn[p].listing_id \in DOMAIN listings
     /\ LET row == listings[txn[p].listing_id] IN
        /\ row.status = "AWAITING_CONFIRMATION"
        /\ txn[p].caller = PendingBuyerTelegramId(row)
        /\ txn[q].caller # SellerTelegramId(row)

(* C25: cancel_pending_by_buyer is accepted exactly when the listing is    *)
(* AWAITING_CONFIRMATION and the caller is its pending buyer; called by    *)
(* anybody else (the seller, a buyer whose window on the listing is over)  *)
(* or in another status it fails and changes nothing.                      *)
C25_PendingBuyerOnly ==
  /\ [](\A p \in Sessions :
          (pc[p] = "commit" /\ txn[p].op = "buyer_cancel")
          => LET row == txn[p].snap[txn[p].listing_id] IN
             /\ row.status = "AWAITING_CONFIRMATION"
             /\ txn[p].caller = PendingBuyerTelegramId(row))
  /\ [][\A p \in Sessions : \A l \in DOMAIN listings :
          Calls(p, "buyer_cancel", l)
          => IF /\ listings[l].status = "AWAITING_CONFIRMATION"
                /\ txn'[p].caller = PendingBuyerTelegramId(listings[l])
             THEN pc'[p] = "commit"
             ELSE /\ pc'[p] = "done" /\ ~txn'[p].ok
                  /\ txn'[p].reason \in {"WrongStatus", "NotPendingBuyer"}
                  /\ listings' = listings]_vars

(* A buyer who cancelled their purchase tries to cancel again while        *)
(* another buyer is pending on the listing, and is refused.                *)
C25_FormerBuyerRefused ==
  \E p \in Sessions :
     /\ Finished(p, "buyer_cancel") /\ txn[p].reason = "NotPendingBuyer"
     /\ txn[p].listing_id \in DOMAIN listings
     /\ LET row == listings[txn[p].listing_id] IN
        /\ row.status = "AWAITING_CONFIRMATION"
        /\ row.cancelled_by_buyer_at # NULL
        /\ row.rejected_by_seller_at = NULL
        /\ txn[p].caller # SellerTelegramId(row)
        /\ txn[p].caller # PendingBuyerTelegramId(row)

(* C26: confirm_payment_sent is accepted only on an AWAITING_CONFIRMATION  *)
(* listing from its pending buyer, and neither the call nor its commit,    *)
(* accepted or refused, changes status, pending buyer, buyer,              *)
(* pending_until or sold_at of any listing.                                *)
C26_PaymentSentAdvisory ==
  [][\A p \in Sessions :
       /\ \A l \in DOMAIN listings :
            Calls(p, "payment_sent", l)
            => /\ listings' = listings
               /\ IF /\ listings[l].status = "AWAITING_CONFIRMATION"
                     /\ txn'[p].caller = PendingBuyerTelegramId(listings[l])
                  THEN pc'[p] = "commit"
                  ELSE /\ pc'[p] = "done" /\ ~txn'[p].ok
                       /\ txn'[p].reason \in {"WrongStatus", "NotPendingBuyer"}
       /\ (pc[p] = "commit" /\ txn[p].op = "payment_sent" /\ pc'[p] = "done")
          => \A l \in DOMAIN listings :
                /\ listings'[l].status = listings[l].status
                /\ listings'[l].pending_buyer_id = listings[l].pending_buyer_id
                /\ listings'[l].buyer_id = listings[l].buyer_id
                /\ listings'[l].pending_until = listings[l].pending_until
                /\ listings'[l].sold_at = listings[l].sold_at
     ]_vars

(* The pending buyer's claim was accepted and committed, and a claim by    *)
(* somebody else was refused; the listing is still pending for the buyer.  *)
C26_ClaimAcceptedAndRefused ==
  \E p, q \in Sessions :
     /\ Finished(p, "payment_sent") /\ Succeeded(p)
     /\ Finished(q, "payment_sent") /\ txn[q].reason = "NotPendingBuyer"
     /\ txn[p].listing_id = txn[q].listing_id
     /\ LET row == listings[txn[p].listing_id] IN
        /\ row.status = "AWAITING_CONFIRMATION"
        /\ txn[p].caller = PendingBuyerTelegramId(row)
        /\ row.buyer_id = NULL /\ row.sold_at = NULL

(* C27: once a confirm_payment_sent of the pending buyer has succeeded,    *)
(* the time of that first claim is what the listing carries: a later       *)
(* confirm_payment_sent by the same buyer in the same pending window finds *)
(* it and leaves it as it is.                                              *)
C27_PaymentClaimRecordedOnce ==
  [][\A p, q \in Sessions :
       (/\ p # q
        /\ Finished(p, "payment_sent") /\ Succeeded(p)
        /\ Calls(q, "payment_sent", txn[p].listing_id)
        /\ pc'[q] = "commit"
        /\ txn'[q].caller = txn[p].caller
        /\ txn[p].buyer_notified_payment_at + PENDING_TIMEOUT_MINUTES
             >= listings[txn[p].listing_id].pending_until)
       => txn'[q].buyer_notified_payment_at = txn[p].buyer_notified_payment_at
     ]_vars

(* C28: a run of the timeout job reverts exactly the listings that are     *)
(* AWAITING_CONFIRMATION with pending_until strictly before the time of    *)
(* the run: each of them becomes AVAILABLE with pending buyer and          *)
(* pending_until null; a listing whose pending_until is the time of the    *)
(* run or later, and a listing in any other status, is left as it was.     *)
C28_SweepRevertsExactlyExpired ==
  [][\A p \in Sessions :
       /\ Sweeps(p)
          => /\ listings' = listings
             /\ \A l \in DOMAIN listings :
                  IF /\ listings[l].status = "AWAITING_CONFIRMATION"
                     /\ listings[l].pending_until # NULL
                     /\ listings[l].pending_until < now
                  THEN /\ pc'[p] = "commit"
                       /\ l \in DOMAIN txn'[p].new
                       /\ txn'[p].new[l].status = "AVAILABLE"
                       /\ txn'[p].new[l].pending_buyer_id = NULL
                       /\ txn'[p].new[l].pending_until = NULL
                  ELSE l \notin DOMAIN txn'[p].new
       /\ (Commits(p, "sweep") /\ Unraced(p))
          => \A l \in DOMAIN listings :
               listings'[l] =
                 IF l \in DOMAIN txn[p].new
                 THEN [listings[l] EXCEPT !.status = "AVAILABLE",
                                          !.pending_buyer_id = NULL,
                                          !.pending_until = NULL]
                 ELSE listings[l]
     ]_vars

(* After two purchases started one clock reading apart and one run of the  *)
(* job, the older one has been reverted and the one whose deadline is the  *)
(* present instant is still pending.                                       *)
C28_RevertedOneLeftOther ==
  \E p \in Sessions : \E a, b \in DOMAIN listings :
     /\ calls = 3
     /\ Finished(p, "sweep") /\ Succeeded(p) /\ Unraced(p)
     /\ listings[a].status = "AVAILABLE"
     /\ listings[a].pending_buyer_id = NULL
     /\ listings[a].pending_until = NULL
     /\ listings[b].status = "AWAITING_CONFIRMATION"
     /\ listings[b].pending_buyer_id # NULL
     /\ listings[b].pending_until = now

(* C29: the pending window is a soft deadline.  A finalize_sale by the     *)
(* seller on a listing that is still AWAITING_CONFIRMATION although its    *)
(* pending_until has passed succeeds and makes the listing SOLD with the   *)
(* pending buyer as buyer; a run of the timeout job after that does not    *)
(* select the SOLD listing and leaves it as it is.                         *)
C29_SoftDeadline ==
  [][\A p \in Sessions : \A l \in DOMAIN listings :
       /\ (/\ Calls(p, "finalize", l)
           /\ listings[l].status = "AWAITING_CONFIRMATION"
           /\ listings[l].pending_until # NULL
           /\ listings[l].pending_until < now
           /\ txn'[p].caller = SellerTelegramId(listings[l]))
          => /\ pc'[p] = "commit"
             /\ txn'[p].new[l].status = "SOLD"
             /\ txn'[p].new[l].buyer_id = listings[l].pending_buyer_id
             /\ txn'[p].new[l].buyer_id # NULL
       /\ (/\ Commits(p, "finalize") /\ Unraced(p)
           /\ l = txn[p].listing_id)
          => /\ listings'[l].status = "SOLD"
             /\ listings'[l].buyer_id = listings[l].pending_buyer_id
             /\ listings'[l].pending_buyer_id = NULL
       /\ (Sweeps(p) /\ listings[l].status = "SOLD")
          => /\ l \notin DOMAIN txn'[p].new
             /\ listings' = listings
       /\ (/\ Commits(p, "sweep") /\ Unraced(p)
           /\ listings[l].status = "SOLD")
          => listings'[l] = listings[l]
     ]_vars

(* Two purchases began at the first clock reading.  One listing has been   *)
(* sold by its seller at the third reading, past its deadline; a run of    *)
(* the timeout job has reverted the other listing, and the sold one is     *)
(* SOLD.                                                                   *)
C29_SoldPastDeadlineThenSwept ==
  \E p, q \in Sessions : \E a, b \in DOMAIN listings :
     /\ calls = 4
     /\ Finished(p, "finalize") /\ Succeeded(p) /\ Unraced(p)
     /\ txn[p].listing_id = a
     /\ Finished(q, "sweep") /\ Succeeded(q) /\ Unraced(q)
     /\ listings[a].status = "SOLD"
     /\ listings[a].buyer_id # NULL
     /\ listings[a].sold_at = StartTime + 2 * ClockStep
     /\ listings[b].status = "AVAILABLE"
     /\ listings[b].pending_buyer_id = NULL

C31_RefusedInitiateChangesNothing ==
  [][\A p \in Sessions :
       /\ \A l \in ListingIds :
            (/\ Calls(p, "initiate", l)
             /\ (l \notin DOMAIN listings \/ listings[l].status # "AVAILABLE"))
            => /\ pc'[p] = "recheck"
               /\ ~txn'[p].ok
               /\ txn'[p].reason = IF l \in DOMAIN listings THEN "NotAvailable"
                                   ELSE "ListingNotFound"
               /\ listings' = listings
       /\ (pc[p] = "recheck" /\ txn[p].op = "initiate" /\ pc'[p] # "recheck")
          => LET l == txn[p].listing_id IN
             /\ listings' = listings
             /\ ~txn'[p].ok
             /\ l \notin DOMAIN listings
                  => txn'[p].error_message = "ListingNotFound"
             /\ (/\ l \in DOMAIN listings
                 /\ listings[l].status # "AVAILABLE"
                 /\ SellerTelegramId(listings[l]) # txn[p].caller)
                  => /\ txn'[p].error_message = "NotAvailable"
                     /\ txn'[p].error_status = listings[l].status
     ]_vars

(* The pending buyer has asked to buy the listing again at a later clock   *)
(* reading and was refused: the listing is still pending for that buyer    *)
(* with the deadline of the first call.                                    *)
C31_PendingBuyerRefused ==
  \E p \in Sessions :
     /\ Finished(p, "initiate") /\ ~Succeeded(p)
     /\ txn[p].reason = "NotAvailable"
     /\ txn[p].error_message = "NotAvailable"
     /\ txn[p].error_status = "AWAITING_CONFIRMATION"
     /\ LET row == listings[txn[p].listing_id] IN
        /\ row.status = "AWAITING_CONFIRMATION"
        /\ PendingBuyerTelegramId(row) = txn[p].caller
        /\ row.pending_until = StartTime + PENDING_TIMEOUT_MINUTES
        /\ now > StartTime

(* C32: a create_listing that fails has no effect: when an active listing  *)
(* already carries the code (DuplicateCode) or the meal id names no stored *)
(* meal (MealNotFound) it returns failure and the stored listings are as   *)
(* before; a create_listing that succeeds inserts exactly one listing,     *)
(* AVAILABLE, with the seller, code, meal and price it was given and with  *)
(* buyer, pending buyer and pending_until null.                            *)
C32_CreateListingEffect ==
  [][\A p \in Sessions :
       /\ \A u \in DOMAIN users :
            (/\ pc[p] = "idle" /\ pc'[p] # "idle" /\ txn'[p].op = "create"
             /\ conv[u].state = "SELL_CONFIRM"
             /\ txn'[p].caller = users[u].telegram_id)
            => LET active == \E l \in DOMAIN listings :
                               /\ listings[l].university_reservation_code
                                    = conv[u].code
                               /\ listings[l].status
                                    \notin {"CANCELLED", "EXPIRED"}
                   nomeal == conv[u].meal_id \notin DOMAIN meals
               IN /\ listings' = listings
                  /\ active
                       => /\ pc'[p] = "done" /\ ~txn'[p].ok
                          /\ txn'[p].reason = "DuplicateCode"
                  /\ (~active /\ nomeal)
                       => /\ pc'[p] = "done" /\ ~txn'[p].ok
                          /\ txn'[p].reason = "MealNotFound"
                  /\ (~active /\ ~nomeal)
                       => /\ pc'[p] = "commit"
                          /\ txn'[p].new[NULL] =
                               [seller_id |-> conv[u].seller_db_id,
                                buyer_id |-> NULL, pending_buyer_id |-> NULL,
                                price |-> conv[u].price, status |-> "AVAILABLE",
                                university_reservation_code |-> conv[u].code,
                                meal_id |-> conv[u].meal_id,
                                sold_at |-> NULL, pending_until |-> NULL,
                                cancelled_at |-> NULL,
                                cancelled_by_buyer_at |-> NULL,
                                rejected_by_seller_at |-> NULL]
       /\ (pc[p] = "commit" /\ txn[p].op = "create" /\ pc'[p] = "done")
          => IF txn'[p].ok
             THEN /\ Cardinality(DOMAIN listings') = Cardinality(DOMAIN listings) + 1
                  /\ \A l \in DOMAIN listings : /\ l \in DOMAIN listings'
                                                /\ listings'[l] = listings[l]
                  /\ txn'[p].listing_id \in DOMAIN listings' \ DOMAIN listings
                  /\ listings'[txn'[p].listing_id] = txn[p].new[NULL]
             ELSE listings' = listings
     ]_vars

(* One create_listing has stored a second listing; another one, for a meal *)
(* that is no longer in the table, has failed with MealNotFound; the table *)
(* holds the two listings.                                                 *)
C32_OneInsertedOneRefused ==
  \E p, q \in Sessions :
     /\ Finished(p, "create") /\ Succeeded(p)
     /\ Finished(q, "create") /\ txn[q].reason = "MealNotFound"
     /\ DOMAIN listings = {1, 2}
     /\ listings[txn[p].listing_id].status = "AVAILABLE"
     /\ listings[txn[p].listing_id].pending_buyer_id = NULL

(* The six operations of the listing state machine *)
StateMachineOps ==
  {"create", "initiate", "finalize", "buyer_cancel", "seller_reject",
   "cancel_available"}

(* C33: no transition is dropped silently or applied in part.  When the    *)
(* commit of create_listing, initiate_purchase, finalize_sale,             *)
(* buyer-cancel, seller-reject or cancel_available_by_seller fails, the    *)
(* operation returns failure and the stored listings are exactly as before *)
(* it; an operation returns success only in the step in which its commit   *)
(* stored every value it assigned.                                         *)
C33_NoHalfAppliedTransition ==
  [][\A p \in Sessions :
       /\ (/\ pc[p] = "commit" /\ pc'[p] = "done"
           /\ txn[p].op \in StateMachineOps
           /\ txn'[p].reason \in {"StorageFailure", "IntegrityError"})
          => /\ ~txn'[p].ok
             /\ listings' = listings
       /\ (/\ txn'[p].ok /\ ~txn[p].ok
           /\ txn'[p].op \in StateMachineOps)
          => /\ pc[p] = "commit" /\ pc'[p] = "done"
             /\ IF txn[p].op = "create"
                THEN /\ txn'[p].listing_id \in DOMAIN listings' \ DOMAIN listings
                     /\ listings'[txn'[p].listing_id] = txn[p].new[NULL]
                ELSE \A l \in DOMAIN txn[p].new :
                       /\ \A f \in DOMAIN txn[p].new[l] :
                            txn[p].new[l][f] # txn[p].snap[l][f]
                              => listings'[l][f] = txn[p].new[l][f]
                       /\ Unraced(p) => listings'[l] = txn[p].new[l]
     ]_vars

(* The commit of a finalize_sale and the commit of a create_listing have   *)
(* both failed: the first listing is still pending and no second listing   *)
(* is stored.                                                              *)
C33_TwoFailedCommits ==
  \E p, q \in Sessions :
     /\ Finished(p, "finalize") /\ StorageFailed(p) /\ ~Succeeded(p)
     /\ Finished(q, "create") /\ StorageFailed(q) /\ ~Succeeded(q)
     /\ DOMAIN listings = {1}
     /\ listings[1].status = "AWAITING_CONFIRMATION"
     /\ listings[1].pending_buyer_id # NULL
     /\ listings[1].buyer_id = NULL

(* C34: a finalize_sale that fails reports the reason that fits the state  *)
(* it observed: not found for a missing listing, NotSeller for a caller    *)
(* who is not the seller, already SOLD for a SOLD listing, and WrongStatus *)
(* with the current status for a listing that was AVAILABLE or CANCELLED,  *)
(* also when another transition on the listing commits between the failed  *)
(* attempt and the choice of the reported reason.                          *)
C34_PreciseFinalizeFailure ==
  [][\A p \in Sessions :
       (/\ pc[p] = "recheck" /\ pc'[p] = "done"
        /\ txn[p].op = "finalize")
       => LET l == txn[p].listing_id IN
          /\ txn[p].reason = "ListingNotFound"
               => txn'[p].error_message = "ListingNotFound"
          /\ txn[p].reason = "NotSeller"
               => txn'[p].error_message = "NotSeller"
          /\ (txn[p].reason = "WrongStatus" /\ txn[p].snap[l].status = "SOLD")
               => txn'[p].error_message = "AlreadySold"
          /\ (/\ txn[p].reason = "WrongStatus"
              /\ txn[p].snap[l].status \in {"AVAILABLE", "CANCELLED"})
               => /\ txn'[p].error_message = "WrongStatus"
                  /\ txn'[p].error_status = listings[l].status
     ]_vars

C36_CreationFieldsFrozen ==
  [][/\ DOMAIN listings' = DOMAIN listings
     /\ \A l \in DOMAIN listings :
          /\ listings'[l].seller_id = listings[l].seller_id
          /\ listings'[l].university_reservation_code
               = listings[l].university_reservation_code
          /\ listings'[l].meal_id = listings[l].meal_id
          /\ listings'[l].price = listings[l].price
     /\ \A p \in Sessions :
          /\ (pc[p] = "idle" /\ pc'[p] # "idle") => listings' = listings
          /\ (pc[p] = "commit" /\ pc'[p] = "done")
             => /\ \A l \in DOMAIN listings \ DOMAIN txn[p].new :
                     listings'[l] = listings[l]
                /\ txn[p].op # "sweep"
                     => DOMAIN txn[p].new \subseteq {txn[p].listing_id}
                /\ txn[p].op = "payment_sent" => listings' = listings
    ]_vars

(* One listing has been bought, claimed as paid and sold, the other has    *)
(* been taken by a buyer: both still carry the seller, code, meal and      *)
(* price they were created with.                                           *)
C36_BothListingsAsCreated ==
  /\ DOMAIN listings = {1, 2}
  /\ \E a, b \in DOMAIN listings :
       /\ listings[a].status = "SOLD"
       /\ listings[b].status = "AWAITING_CONFIRMATION"
  /\ \E p \in Sessions : Finished(p, "finalize") /\ Succeeded(p)
  /\ \E q \in Sessions : Finished(q, "payment_sent") /\ Succeeded(q)
  /\ \A l \in DOMAIN listings :
       \E c \in TwoCreatedListings :
          /\ listings[l].seller_id = c[l].seller_id
          /\ listings[l].university_reservation_code
               = c[l].university_reservation_code
          /\ listings[l].meal_id = c[l].meal_id
          /\ listings[l].price = c[l].price

(* C37: in every reachable state and for every listing, sold_at is         *)
(* non-null if and only if the status is SOLD.                             *)
C37_SoldAtIffSold ==
  \A l \in DOMAIN listings :
     (listings[l].sold_at # NULL) <=> (listings[l].status = "SOLD")

(* C38: the reservation code is delivered only to the recorded buyer of a  *)
(* sold listing.  When the seller-confirmation flow sends the code of a    *)
(* listing to a user, the listing is SOLD with that user as buyer and the  *)
(* user was its pending buyer when the finalize committed; a user whose    *)
(* pending purchase a buyer-cancel, a seller-reject or a sweep has ended   *)
(* is not sent the code for that window, whatever the interleaving.        *)
C38_CodeOnlyToPendingBuyer ==
  [][\A p \in Sessions :
       Commits(p, "finalize")
       => LET l == txn[p].listing_id IN
          /\ CodeRecipient(p) # NULL
          /\ listings'[l].status = "SOLD"
          /\ listings'[l].buyer_id = get_user_by_telegram_id(CodeRecipient(p))
          /\ PendingBuyerTelegramId(listings[l]) = CodeRecipient(p)
     ]_vars

(* C39: each timed-out pending window is reported once.  A run of the      *)
(* timeout job reports exactly the listings whose reversion it committed,  *)
(* and of two runs, concurrent or back to back, at most one reports a      *)
(* given pending window as reverted.                                       *)
C39_TimeoutReportedOnce ==
  [][\A p \in Sessions :
       Commits(p, "sweep")
       => /\ \A l \in DOMAIN txn[p].new :
               /\ listings'[l].status = "AVAILABLE"
               /\ listings'[l].pending_buyer_id = NULL
          /\ \A q \in Sessions :
               (/\ q # p
                /\ Finished(q, "sweep") /\ Succeeded(q)
                /\ q \in txn[p].concurrent)
               => \A l \in DOMAIN txn[p].new :
                    ~(/\ listings[l].status = "AVAILABLE"
                      /\ listings[l].pending_buyer_id = NULL)
     ]_vars

(* C40: bounded reclamation.  With the timeout job run in every interval   *)
(* of S minutes, a pending window is over at most T + S minutes after its  *)
(* initiate_purchase (a window whose deadline passed before the run of an  *)
(* interval does not outlive that interval), and no run of the job reverts *)
(* a pending window less than T minutes after its initiate_purchase.       *)
C40_BoundedReclamation ==
  [][/\ now' # now
        => \A l \in DOMAIN listings :
             ~(/\ listings[l].status = "AWAITING_CONFIRMATION"
               /\ listings[l].pending_until # NULL
               /\ listings[l].pending_until < now)
     /\ \A p \in Sessions :
          Commits(p, "sweep")
          => \A l \in DOMAIN txn[p].new :
               (/\ listings[l].status = "AWAITING_CONFIRMATION"
                /\ listings[l].pending_until # NULL
                /\ listings'[l].status # "AWAITING_CONFIRMATION")
               => now - (listings[l].pending_until - PENDING_TIMEOUT_MINUTES)
                    >= PENDING_TIMEOUT_MINUTES
    ]_vars

====
